---- MODULE Spec2Model ----
(***************************************************************************)
(* Model of the starter-pack card builder: the Blender script              *)
(* services/blender_starter_pack.py (layout, placement and trim pipeline,  *)
(* STL export, print-texture compositor) and the part of                   *)
(* services/order_processor.py that runs it and reports the result.        *)
(*                                                                         *)
(* Numbers.  The script computes in floating point, mixing millimetres     *)
(* and metres.  The model computes with exact rationals <<n, d>> (d > 0,   *)
(* lowest terms) and keeps every unit conversion of the source (/ 1000,    *)
(* * 1000, / 25.4 * dpi) and every int() truncation.                       *)
(***************************************************************************)
EXTENDS Integers, Sequences, FiniteSets, TLC

(***************************************************************************)
(* Exact rational arithmetic                                               *)
(***************************************************************************)
Abs(n) == IF n < 0 THEN -n ELSE n

RECURSIVE Gcd(_, _)
Gcd(a, b) == IF b = 0 THEN a ELSE Gcd(b, a % b)

Norm(n, d) ==
    LET g == Gcd(Abs(n), Abs(d))
        s == IF d < 0 THEN -1 ELSE 1
    IN  <<(s * n) \div g, (s * d) \div g>>

Q(n) == <<n, 1>>
Frac(n, d) == Norm(n, d)
\* a and b over their least common denominator: <<a', b', lcd>>
Common(a, b) ==
    LET g == Gcd(a[2], b[2])
    IN  <<a[1] * (b[2] \div g), b[1] * (a[2] \div g), (a[2] \div g) * b[2]>>
RAdd(a, b) == LET c == Common(a, b) IN Norm(c[1] + c[2], c[3])
RSub(a, b) == LET c == Common(a, b) IN Norm(c[1] - c[2], c[3])
RMul(a, b) ==
    LET g1 == Gcd(Abs(a[1]), b[2])
        g2 == Gcd(Abs(b[1]), a[2])
    IN  Norm((a[1] \div g1) * (b[1] \div g2), (a[2] \div g2) * (b[2] \div g1))
RDiv(a, b) == IF b[1] < 0 THEN RMul(a, <<-b[2], -b[1]>>) ELSE RMul(a, <<b[2], b[1]>>)
RLt(a, b) == LET c == Common(a, b) IN c[1] < c[2]
RLe(a, b) == LET c == Common(a, b) IN c[1] <= c[2]
RMin(a, b) == IF RLt(b, a) THEN b ELSE a
RMax(a, b) == IF RLt(a, b) THEN b ELSE a
RNeg(a) == <<-a[1], a[2]>>
RAbs(a) == <<Abs(a[1]), a[2]>>
RHalf(a) == RDiv(a, Q(2))
\* a < 1/k, for integer k > 0, without forming k * numerator
RLtInv(a, k) == a[1] <= 0 \/ k <= (a[2] - 1) \div a[1]
\* Python's int(): truncation toward zero
PyInt(a) == IF a[1] >= 0 THEN a[1] \div a[2] ELSE -((-a[1]) \div a[2])
\* Python's // on integers: floor division
FloorDiv(n, d) == n \div d
\* Python's round() of a non-negative rational (ties to even)
PyRound(a) ==
    LET f == a[1] \div a[2]
        r == RSub(a, Q(f))
    IN  IF RLt(r, <<1, 2>>) THEN f
        ELSE IF RLt(<<1, 2>>, r) THEN f + 1
        ELSE IF f % 2 = 0 THEN f ELSE f + 1

(***************************************************************************)
(* Configuration of blender_starter_pack.py                                *)
(***************************************************************************)
CARD_WIDTH == 130
CARD_HEIGHT == 170
CARD_THICKNESS == 3
UPPER_RATIO == Frac(15, 100)
FIGURE_WIDTH_RATIO == Frac(3, 5)
ACC_HEIGHT_RATIO == Frac(2, 3)
MARGIN_FIGURE == 5
MARGIN_ACCESSORIES == 3
SIZE_BOOST_FIGURE == Frac(132, 100)
SIZE_BOOST_ACCESSORIES == Frac(162, 100)
MESH_PLANE_SINK_DEPTH == 1
SUBDIVIDE_CUTS == 100
SUBSURF_LEVELS == 4
DECIMATE_RATIO == Frac(3, 10)
DISPLACEMENT_STRENGTH_FIGURE == Frac(10, 1000)
DISPLACEMENT_STRENGTH_ACCESSORIES == Frac(25, 1000)
TEXT_TOP_MARGIN == 10
TEXT_LIFT == Frac(1, 10)
TEXT_EXTRUDE == Frac(8, 10)
TITLE_MAX_WIDTH == Q(114)
TITLE_MAX_HEIGHT == Frac(117, 10)
SUBTITLE_MAX_WIDTH == Frac(646, 10)
SUBTITLE_MAX_HEIGHT == Frac(743, 100)
\* main() calls create_uv_print_texture with dpi=300
DPI == 300
\* 1 inch = 25.4 mm
MM_PER_INCH == Frac(254, 10)
\* mm <-> m
Mm2M(a) == RDiv(a, Q(1000))
M2Mm(a) == RMul(a, Q(1000))

(***************************************************************************)
(* uniform_fit: the factor that obj.scale is multiplied by.  d_x, d_y are  *)
(* the object's world dimensions in metres, target_w, target_h and margin  *)
(* in mm.  The result is <<applied, s>>: applied is FALSE on the early     *)
(* return for degenerate dimensions (the scale is then left alone).        *)
(***************************************************************************)
\* eps = 1e-9 and the 1e-6 floor of tw, th, as 1/EPS_INV and 1/FLOOR_INV
EPS_INV == 1000000000
FLOOR_INV == 1000000

FitTarget(target, margin) ==
    RMax(<<1, FLOOR_INV>>,
         RSub(Mm2M(target), RDiv(RMul(Q(2), margin), Q(1000))))

uniform_fit_no_boost(d_x, d_y, target_w, target_h, margin, size_boost) ==
    IF RLtInv(d_x, EPS_INV) \/ RLtInv(d_y, EPS_INV)
    THEN <<FALSE, Q(1)>>
    ELSE LET tw == FitTarget(target_w, margin)
             th == FitTarget(target_h, margin)
         IN  <<TRUE, RMin(RDiv(tw, d_x), RDiv(th, d_y))>>

uniform_fit(d_x, d_y, target_w, target_h, margin, size_boost) ==
    IF RLtInv(d_x, EPS_INV) \/ RLtInv(d_y, EPS_INV)
    THEN <<FALSE, Q(1)>>
    ELSE LET tw == FitTarget(target_w, margin)
             th == FitTarget(target_h, margin)
             scale_x == RDiv(tw, RMax(d_x, <<1, EPS_INV>>))
             scale_y == RDiv(th, RMax(d_y, <<1, EPS_INV>>))
         IN  <<TRUE, RMul(RMin(scale_x, scale_y), size_boost)>>

(***************************************************************************)
(* create_uv_print_texture: canvas size in pixels and the pixel scale      *)
(***************************************************************************)
canvas_px_rounded(card_mm, dpi) == PyRound(RMul(RDiv(Q(card_mm), MM_PER_INCH), Q(dpi)))

canvas_px(card_mm, dpi) == PyInt(RMul(RDiv(Q(card_mm), MM_PER_INCH), Q(dpi)))

px_per_mm(dpi) == RDiv(Q(dpi), MM_PER_INCH)

(***************************************************************************)
(* calculate_layout: slot positions for the figure and the accessories.    *)
(* card_w, card_h, fig_x, fig_y, acc_x, acc_centers_y are in metres, the   *)
(* slot sizes in mm, as in the dict the function returns.                  *)
(***************************************************************************)
LayoutOf(acc_cells, acc_ratio) ==
    LET card_w == Mm2M(Q(CARD_WIDTH))
        card_h == Mm2M(Q(CARD_HEIGHT))
        H_upper == RMul(card_h, UPPER_RATIO)
        H_lower == RSub(card_h, H_upper)
        W_left == RMul(card_w, FIGURE_WIDTH_RATIO)
        W_right == RSub(card_w, W_left)
        lower_y_min == RNeg(RHalf(card_h))
        lower_y_max == RAdd(lower_y_min, H_lower)
        lower_y_center == RHalf(RAdd(lower_y_min, lower_y_max))
        fig_slot_w == W_left
        fig_slot_h == H_lower
        acc_slot_w == W_right
        acc_slot_h == RMul(card_h, acc_ratio)
        acc_cell_h == RDiv(acc_slot_h, Q(acc_cells))
        left_x_center == RAdd(RNeg(RHalf(card_w)), RHalf(fig_slot_w))
        right_x_center == RSub(RHalf(card_w), RHalf(acc_slot_w))
        acc_y_center == lower_y_center
        start_y == RSub(RAdd(acc_y_center, RHalf(acc_slot_h)), RHalf(acc_cell_h))
    IN  [card_w |-> card_w,
         card_h |-> card_h,
         fig_slot_w |-> M2Mm(fig_slot_w),
         fig_slot_h |-> M2Mm(fig_slot_h),
         fig_x |-> left_x_center,
         fig_y |-> lower_y_center,
         acc_slot_w |-> M2Mm(acc_slot_w),
         acc_cell_h |-> M2Mm(acc_cell_h),
         acc_x |-> right_x_center,
         acc_centers_y |-> [i \in 1..3 |-> RSub(start_y, RMul(Q(i - 1), acc_cell_h))]]

\* a layout whose accessory cells are too tall for their spacing
calculate_layout_two_cells ==
    [LayoutOf(3, ACC_HEIGHT_RATIO) EXCEPT !.acc_cell_h = M2Mm(RDiv(RMul(Mm2M(Q(CARD_HEIGHT)), ACC_HEIGHT_RATIO), Q(2)))]

calculate_layout == LayoutOf(3, ACC_HEIGHT_RATIO)

(***************************************************************************)
(* Rectangles in mm, [x0, x1, y0, y1], card centred at the origin          *)
(***************************************************************************)
Rect(cx, cy, w, h) ==
    [x0 |-> RSub(cx, RHalf(w)), x1 |-> RAdd(cx, RHalf(w)),
     y0 |-> RSub(cy, RHalf(h)), y1 |-> RAdd(cy, RHalf(h))]

RectW(r) == RSub(r.x1, r.x0)
RectH(r) == RSub(r.y1, r.y0)
RectArea(r) == RMul(RectW(r), RectH(r))
RectInside(r, o) ==
    RLe(o.x0, r.x0) /\ RLe(r.x1, o.x1) /\ RLe(o.y0, r.y0) /\ RLe(r.y1, o.y1)
\* the interiors of r and o are disjoint
RectDisjoint(r, o) ==
    RLe(r.x1, o.x0) \/ RLe(o.x1, r.x0) \/ RLe(r.y1, o.y0) \/ RLe(o.y1, r.y0)

CardRect == Rect(Q(0), Q(0), Q(CARD_WIDTH), Q(CARD_HEIGHT))

\* the cell of piece p in layout L: 0 is the figure, 1..3 the accessories
CellRect(L, p) ==
    IF p = 0
    THEN Rect(M2Mm(L.fig_x), M2Mm(L.fig_y), L.fig_slot_w, L.fig_slot_h)
    ELSE Rect(M2Mm(L.acc_x), M2Mm(L.acc_centers_y[p]), L.acc_slot_w, L.acc_cell_h)

\* add_title_and_subtitle: the upper area of the card reserved for text
TextBand ==
    LET card_h == Mm2M(Q(CARD_HEIGHT))
        upper_area_height == RMul(card_h, UPPER_RATIO)
        upper_y_max == RHalf(card_h)
        upper_y_min == RSub(upper_y_max, upper_area_height)
    IN  [x0 |-> RNeg(RHalf(Q(CARD_WIDTH))), x1 |-> RHalf(Q(CARD_WIDTH)),
         y0 |-> M2Mm(upper_y_min), y1 |-> M2Mm(upper_y_max)]


(***************************************************************************)
(* Scene objects.  An object is [loc, bb]: its location and its world      *)
(* axis-aligned bounding box (world_aabb), in metres.                      *)
(***************************************************************************)
Pieces == 0..3
AccIds == 1..3
Zero3 == [x |-> Q(0), y |-> Q(0), z |-> Q(0)]
ZeroBox == [x0 |-> Q(0), x1 |-> Q(0), y0 |-> Q(0), y1 |-> Q(0), z0 |-> Q(0), z1 |-> Q(0)]
ZeroObj == [loc |-> Zero3, bb |-> ZeroBox]

\* The objects of the scene by name: the type of an object's data, the
\* number of polygons of its mesh and the names of its pending modifiers
NoObjects == [n \in {} |-> 0]
AddObj(sc, n, r) == [m \in DOMAIN sc \cup {n} |-> IF m = n THEN r ELSE sc[m]]
DelObj(sc, n) == [m \in DOMAIN sc \ {n} |-> sc[m]]
MeshObject(polys, mods) == [type |-> "MESH", polys |-> polys, mods |-> mods]
FontObject == [type |-> "FONT", polys |-> 0, mods |-> <<>>]
\* primitive_cube_add: six faces
CUBE_POLYGONS == 6
\* create_displaced_mesh: a plane cut SUBDIVIDE_CUTS times along each axis,
\* with three modifiers that stay on the object
ReliefObject ==
    MeshObject((SUBDIVIDE_CUTS + 1) * (SUBDIVIDE_CUTS + 1),
               <<"Subdivision", "Displacement", "CorrectiveSmooth">>)

world_dims(o) ==
    [x |-> RSub(o.bb.x1, o.bb.x0), y |-> RSub(o.bb.y1, o.bb.y0), z |-> RSub(o.bb.z1, o.bb.z0)]

Translate(o, dx, dy, dz) ==
    [loc |-> [x |-> RAdd(o.loc.x, dx), y |-> RAdd(o.loc.y, dy), z |-> RAdd(o.loc.z, dz)],
     bb |-> [x0 |-> RAdd(o.bb.x0, dx), x1 |-> RAdd(o.bb.x1, dx),
             y0 |-> RAdd(o.bb.y0, dy), y1 |-> RAdd(o.bb.y1, dy),
             z0 |-> RAdd(o.bb.z0, dz), z1 |-> RAdd(o.bb.z1, dz)]]

\* obj.scale *= s: the geometry scales about the object's origin
ScaleAboutOrigin(o, s) ==
    LET f(v, c) == RAdd(c, RMul(s, RSub(v, c)))
    IN  [loc |-> o.loc,
         bb |-> [x0 |-> f(o.bb.x0, o.loc.x), x1 |-> f(o.bb.x1, o.loc.x),
                 y0 |-> f(o.bb.y0, o.loc.y), y1 |-> f(o.bb.y1, o.loc.y),
                 z0 |-> f(o.bb.z0, o.loc.z), z1 |-> f(o.bb.z1, o.loc.z)]]

\* create_base_plate: 130 x 170 x 3 mm, centred, top surface at Z = 0
create_base_plate ==
    LET w == Mm2M(Q(CARD_WIDTH))
        h == Mm2M(Q(CARD_HEIGHT))
        t == Mm2M(Q(CARD_THICKNESS))
    IN  [loc |-> Zero3,
         bb |-> [x0 |-> RNeg(RHalf(w)), x1 |-> RHalf(w),
                 y0 |-> RNeg(RHalf(h)), y1 |-> RHalf(h),
                 z0 |-> RNeg(t), z1 |-> Q(0)]]

\* create_displaced_mesh: a plane of size 1 scaled to 0.08 x 0.12 m at the
\* origin, displaced along +Z by at most `relief` (strength * luminance)
PLANE_W == Frac(8, 100)
PLANE_H == Frac(12, 100)
create_displaced_mesh(relief) ==
    [loc |-> Zero3,
     bb |-> [x0 |-> RNeg(RHalf(PLANE_W)), x1 |-> RHalf(PLANE_W),
             y0 |-> RNeg(RHalf(PLANE_H)), y1 |-> RHalf(PLANE_H),
             z0 |-> Q(0), z1 |-> relief]]

center_xy(o) ==
    LET cx == RHalf(RAdd(o.bb.x0, o.bb.x1))
        cy == RHalf(RAdd(o.bb.y0, o.bb.y1))
    IN  Translate(o, RNeg(cx), RNeg(cy), Q(0))

rest_on_z0(o) == Translate(o, Q(0), Q(0), RNeg(o.bb.z0))

set_location_xy_unmoved(o, x, y) == o

\* obj.location.x = x; obj.location.y = y
set_location_xy(o, x, y) == Translate(o, RSub(x, o.loc.x), RSub(y, o.loc.y), Q(0))

snap_bottom_to_base_top(o, base, z_offset) ==
    LET target == RAdd(base.bb.z1, z_offset)
        dz == RSub(target, o.bb.z0)
    IN  Translate(o, Q(0), Q(0), dz)

sink_by_depth(o, sink_depth_mm) ==
    Translate(o, Q(0), Q(0), RNeg(RDiv(Q(sink_depth_mm), Q(1000))))

\* sink_mesh_plane_into_card: the bottom goes to -sink_depth
sink_mesh_plane_into_card(o, sink_depth_mm) ==
    LET sink_depth == RDiv(Q(sink_depth_mm), Q(1000))
        move_amount == RSub(o.bb.z0, RNeg(sink_depth))
    IN  Translate(o, Q(0), Q(0), RNeg(move_amount))

extends_outside_x(o, card_width, card_height) ==
    \/ RLt(o.bb.x0, RNeg(RHalf(card_width)))
    \/ RLt(RHalf(card_width), o.bb.x1)

\* trim_to_card_boundaries: the test that decides whether to trim
extends_outside(o, card_width, card_height) ==
    LET card_half_w == RHalf(card_width)
        card_half_h == RHalf(card_height)
    IN  \/ RLt(o.bb.x0, RNeg(card_half_w))
        \/ RLt(card_half_w, o.bb.x1)
        \/ RLt(o.bb.y0, RNeg(card_half_h))
        \/ RLt(card_half_h, o.bb.y1)

\* trim_to_card_boundaries: the objects of the scene afterwards; the
\* TrimToCard modifier is applied at once and the TrimBox deleted
trim_objects(sc, o, card_width, card_height) ==
    IF ~extends_outside(o, card_width, card_height)
    THEN sc
    ELSE DelObj(AddObj(sc, "TrimBox", MeshObject(CUBE_POLYGONS, <<>>)), "TrimBox")

trim_skipped(o, card_width, card_height) == o

\* trim_to_card_boundaries: boolean INTERSECT with a box of the card's width
\* and height centred at (0, 0) that covers the object's Z range
trim_to_card_boundaries(o, card_width, card_height) ==
    IF ~extends_outside(o, card_width, card_height)
    THEN o
    ELSE [o EXCEPT !.bb.x0 = RMax(@, RNeg(RHalf(card_width))),
                   !.bb.x1 = RMin(@, RHalf(card_width)),
                   !.bb.y0 = RMax(@, RNeg(RHalf(card_height))),
                   !.bb.y1 = RMin(@, RHalf(card_height))]

\* cut_below_card: boolean DIFFERENCE with a slab below the card's bottom
cut_below_card(o, card_thickness) ==
    LET card_bottom_z == RNeg(card_thickness)
    IN  IF RLe(card_bottom_z, o.bb.z0)
        THEN o
        ELSE [o EXCEPT !.bb.z0 = card_bottom_z,
                       !.bb.z1 = RMax(@, card_bottom_z)]

\* cut_below_card: the objects of the scene afterwards
cut_objects(sc, o, card_thickness) ==
    IF RLe(RNeg(card_thickness), o.bb.z0)
    THEN sc
    ELSE DelObj(AddObj(sc, "TempCutter", MeshObject(CUBE_POLYGONS, <<>>)), "TempCutter")

\* the steps of position_figure and of position_accessory, in source order
position_figure_capture_last ==
    <<"center_xy", "rest_on_z0", "uniform_fit", "center_xy", "set_location",
      "snap", "sink", "trim", "cut", "capture", "smooth">>

position_figure ==
    <<"center_xy", "rest_on_z0", "uniform_fit", "center_xy", "set_location",
      "snap", "sink", "capture", "trim", "cut", "smooth">>

position_accessory_trim_first ==
    <<"center_xy", "rest_on_z0", "uniform_fit", "center_xy", "set_location",
      "snap", "trim", "sink", "cut", "smooth">>

position_accessory ==
    <<"center_xy", "rest_on_z0", "uniform_fit", "center_xy", "set_location",
      "snap", "sink", "trim", "cut", "smooth">>

PositionSteps(p) == IF p = 0 THEN position_figure ELSE position_accessory

(***************************************************************************)
(* Text: scale_text_to_fit and the placement of add_title_and_subtitle.    *)
(* Dimensions of a text object are <<w, h>> in metres.                     *)
(***************************************************************************)
scale_text_to_fit_uncapped(dims, max_width_mm, max_height_mm) ==
    LET current_w == M2Mm(dims[1])
        current_h == M2Mm(dims[2])
    IN  IF RLe(current_w, Q(0)) \/ RLe(current_h, Q(0))
        THEN dims
        ELSE LET scale == RMin(RDiv(max_width_mm, current_w), RDiv(max_height_mm, current_h))
             IN  <<RMul(dims[1], scale), RMul(dims[2], scale)>>

scale_text_to_fit(dims, max_width_mm, max_height_mm) ==
    LET current_w == M2Mm(dims[1])
        current_h == M2Mm(dims[2])
    IN  IF RLe(current_w, Q(0)) \/ RLe(current_h, Q(0))
        THEN dims
        ELSE LET scale_w == RDiv(max_width_mm, current_w)
                 scale_h == RDiv(max_height_mm, current_h)
                 scale == RMin(RMin(scale_w, scale_h), Q(1))
             IN  IF RLt(scale, Q(1))
                 THEN <<RMul(dims[1], scale), RMul(dims[2], scale)>>
                 ELSE dims

NoText == [has |-> FALSE, w |-> Q(0), h |-> Q(0), y |-> Q(0)]

\* add_title_and_subtitle with the subtitle placed as if there were no title
add_title_and_subtitle_no_stack(title, sub) ==
    LET tdims == IF title = <<>> THEN <<Q(0), Q(0)>>
                 ELSE scale_text_to_fit(<<Mm2M(Q(title[1])), Mm2M(Q(title[2]))>>,
                                        TITLE_MAX_WIDTH, TITLE_MAX_HEIGHT)
        sdims == IF sub = <<>> THEN <<Q(0), Q(0)>>
                 ELSE scale_text_to_fit(<<Mm2M(Q(sub[1])), Mm2M(Q(sub[2]))>>,
                                        SUBTITLE_MAX_WIDTH, SUBTITLE_MAX_HEIGHT)
        top_margin == Mm2M(Q(TEXT_TOP_MARGIN))
        card_top_y == RDiv(RHalf(Q(CARD_HEIGHT)), Q(1000))
    IN  [title |-> IF title = <<>> THEN NoText
                   ELSE [has |-> TRUE, w |-> tdims[1], h |-> tdims[2],
                         y |-> RSub(RSub(card_top_y, top_margin), RHalf(tdims[2]))],
         sub |-> IF sub = <<>> THEN NoText
                 ELSE [has |-> TRUE, w |-> sdims[1], h |-> sdims[2],
                       y |-> RSub(RSub(card_top_y, top_margin), RHalf(sdims[2]))]]

\* add_title_and_subtitle: title and sub are "none" or raw <<w, h>> in mm
add_title_and_subtitle(title, sub) ==
    LET tdims == IF title = <<>> THEN <<Q(0), Q(0)>>
                 ELSE scale_text_to_fit(<<Mm2M(Q(title[1])), Mm2M(Q(title[2]))>>,
                                        TITLE_MAX_WIDTH, TITLE_MAX_HEIGHT)
        sdims == IF sub = <<>> THEN <<Q(0), Q(0)>>
                 ELSE scale_text_to_fit(<<Mm2M(Q(sub[1])), Mm2M(Q(sub[2]))>>,
                                        SUBTITLE_MAX_WIDTH, SUBTITLE_MAX_HEIGHT)
        title_height == tdims[2]
        sub_height == sdims[2]
        gap == Frac(2, 1000)
        top_margin == Mm2M(Q(TEXT_TOP_MARGIN))
        card_top_y == RDiv(RHalf(Q(CARD_HEIGHT)), Q(1000))
        title_y == RSub(RSub(card_top_y, top_margin), RHalf(title_height))
        sub_y == IF title # <<>>
                 THEN RSub(RSub(RSub(title_y, RHalf(title_height)), gap), RHalf(sub_height))
                 ELSE RSub(RSub(card_top_y, top_margin), RHalf(sub_height))
    IN  [title |-> IF title = <<>> THEN NoText
                   ELSE [has |-> TRUE, w |-> tdims[1], h |-> tdims[2], y |-> title_y],
         sub |-> IF sub = <<>> THEN NoText
                 ELSE [has |-> TRUE, w |-> sdims[1], h |-> sdims[2], y |-> sub_y]]

\* add_title_and_subtitle: the text objects it links to the scene
text_objects(sc, title, sub) ==
    LET s1 == IF title # <<>> THEN AddObj(sc, "Title", FontObject) ELSE sc
    IN  IF sub # <<>> THEN AddObj(s1, "Subtitle", FontObject) ELSE s1

\* the XY box of a text object: centred at x = 0 (align CENTER), in metres
TextBox(t) ==
    [x0 |-> RNeg(RHalf(t.w)), x1 |-> RHalf(t.w),
     y0 |-> RSub(t.y, RHalf(t.h)), y1 |-> RAdd(t.y, RHalf(t.h))]


(***************************************************************************)
(* create_uv_print_texture.place_image: the rectangle that is pasted for   *)
(* an image of orig = <<orig_w, orig_h>> pixels, given the record's centre *)
(* and size in mm.  The result is [x, y, w, h] in pixels, (x, y) being the *)
(* top-left corner (pixel origin at the top-left, Y downwards).            *)
(***************************************************************************)
mm_to_px(x_mm, y_mm, dpi) ==
    <<PyInt(RMul(RAdd(x_mm, RHalf(Q(CARD_WIDTH))), px_per_mm(dpi))),
      PyInt(RMul(RSub(RHalf(Q(CARD_HEIGHT)), y_mm), px_per_mm(dpi)))>>

place_image(orig, center_x_mm, center_y_mm, width_mm, height_mm, dpi) ==
    LET target_w_px == PyInt(RMul(width_mm, px_per_mm(dpi)))
        target_h_px == PyInt(RMul(height_mm, px_per_mm(dpi)))
        scale_w == Frac(target_w_px, orig[1])
        scale_h == Frac(target_h_px, orig[2])
        scale == RMin(scale_w, scale_h)
        new_w == PyInt(RMul(Q(orig[1]), scale))
        new_h == PyInt(RMul(Q(orig[2]), scale))
        c == mm_to_px(center_x_mm, center_y_mm, dpi)
    IN  [x |-> c[1] - FloorDiv(new_w, 2), y |-> c[2] - FloorDiv(new_h, 2),
         w |-> new_w, h |-> new_h]

(***************************************************************************)
(* Inputs of one job                                                       *)
(***************************************************************************)
\* The figure's depth map: produced and loadable ("ok"); the path is given
\* but no file is there ("missing"); the file is there but is no decodable
\* image ("bad_depth"); the depth-map service failed ("depth_failed").
FigInputs == {"ok", "missing", "bad_depth", "depth_failed"}
\* An accessory: as above, "bad_img" being a colour image that is there but
\* is no decodable image.
AccInputs == {"ok", "missing", "bad_img", "depth_failed"}
\* bpy.data.images.load of a file that is no decodable image: the load may
\* raise, or succeed with an image that has no pixels
LoadOutcomes == {"raises", "empty"}
\* Raw <<width, height>> in mm of the title and subtitle text objects before
\* scale_text_to_fit; <<>> is the empty string
MaxTitleKinds == 2
MaxSubtitleKinds == 1
TitleInputs == {<<>>} \cup {<<60 + 240 * (i - 1), 14 + 4 * (i - 1)>> : i \in 1..MaxTitleKinds}
SubtitleInputs == {<<>>} \cup {<<40 + 100 * (i - 1), 10>> : i \in 1..MaxSubtitleKinds}
\* Pixel sizes <<w, h>> of the colour images: the generator's 1024 x 1536
\* and i * 512 wider
MaxImageKinds == 3
ImageSizes == {<<1024 + 512 * (i - 1), IF i = 3 THEN 1024 ELSE 1536>> : i \in 1..MaxImageKinds}

PieceName(p) ==
    IF p = 0 THEN "Figure"
    ELSE IF p = 1 THEN "Accessory_1"
    ELSE IF p = 2 THEN "Accessory_2"
    ELSE "Accessory_3"

VARIABLES
    pc,             \* where the job is
    figIn, accIn,   \* the job's inputs
    titleIn, subIn,
    errors,         \* _process_order: errors (accessory ids whose depth map failed)
    depth_maps,     \* _process_order: depth_maps (0 = figure, k = accessory_k)
    cmd,            \* accessories passed to Blender (--acck_img, --acck_depth)
    outputs,        \* _process_order: outputs found after Blender
    report,         \* what the database record of the order says
    layout,         \* main: layout
    card,           \* main: card
    text,           \* main: text_objects
    exists,         \* relief pieces in the scene
    scene,          \* bpy.data.objects: name |-> [type, polys, mods]
    obj,            \* the relief pieces' location and bounding box
    cur, step,      \* piece being placed and its next step
    ran,            \* steps that have run on each piece
    trace,          \* the same, in the order in which they ran
    preTrim,        \* each piece's XY rectangle (mm) after the sink step
    figure_rec,     \* main: figure_pos, figure_dims
    accessories,    \* main: accessories
    acc_positions,  \* main: acc_positions
    acc_dims_list,  \* main: acc_dims_list
    acc_img_paths,  \* main: acc_img_paths
    recStage,       \* when each piece's record was measured
    blendSaved,     \* the .blend file was written
    blendScene,     \* the scene that the .blend file holds
    stl,            \* the exported STL
    tex,            \* the print texture
    paste,          \* the last rectangle pasted by place_image
    ti,             \* create_uv_print_texture: index in the accessory lists
    call, result,   \* a call of a pure function and its result
    queue,          \* OrderProcessor.queue
    processing,     \* OrderProcessor.processing
    current_job,    \* OrderProcessor.current_job (0: None)
    workers,        \* the _process_queue tasks that were created
    enqueued,       \* every order appended to the queue, in order
    started,        \* every order taken from the queue, in order
    failed,         \* jobs whose processing raised
    run,            \* the number of runs of _process_order for the job so far
    from_step,      \* order_data["from_step"] of the current run
    spc,            \* where the current run of _process_order is
    executed,       \* the steps the current run has executed, in order
    figure_files,   \* the figure's image and depth map are on disk
    generated,      \* the accessory images in storage/generated/<job>
    nobg_files,     \* accessory_<i>_nobg.png: the image it was made from
    depth_files,    \* accessory_<i>_depth.png: the image it was made from
    accessory_imgs, \* the list accessory_imgs of the current run
    depth_of,       \* the dict depth_maps of the current run, by index
    blender_acc,    \* the --acc<n>_img / --acc<n>_depth arguments
    job_status,     \* job_storage[job_id]["status"]
    progress,       \* job_storage[job_id]["progress"]
    jpc,            \* where process_job is
    executing,      \* the step process_job is executing
    n_images,       \* len(generated_images)
    n_nobg,         \* the images whose background was removed
    n_models        \* len(models_3d)

jobVars == <<figIn, accIn, titleIn, subIn>>
orderVars == <<errors, depth_maps, cmd, outputs, report>>
sceneVars == <<layout, card, text, exists, scene, obj, cur, step, ran, trace, preTrim>>
recVars == <<figure_rec, accessories, acc_positions, acc_dims_list, acc_img_paths, recStage>>
outVars == <<blendSaved, blendScene, stl, tex, paste, ti>>
unitVars == <<call, result>>
apiVars == <<job_status, progress, jpc, executing, n_images, n_nobg, n_models>>
retryVars == <<run, from_step, spc, executed, figure_files, generated, nobg_files, depth_files,
               accessory_imgs, depth_of, blender_acc>>
queueVars == <<queue, processing, current_job, workers, enqueued, started, failed>>
pipelineVars == <<jobVars, orderVars, sceneVars, recVars, outVars>>
vars == <<pc, jobVars, orderVars, sceneVars, recVars, outVars, unitVars, queueVars, retryVars, apiVars>>

NoRec == [has |-> FALSE, pos |-> <<Q(0), Q(0)>>, dims |-> <<Q(0), Q(0)>>]
NoRect == [x0 |-> Q(0), x1 |-> Q(0), y0 |-> Q(0), y1 |-> Q(0)]
NoPaste == [has |-> FALSE, piece |-> 0, img |-> <<0, 0>>, rect |-> [x |-> 0, y |-> 0, w |-> 0, h |-> 0],
            pos |-> <<Q(0), Q(0)>>, dims |-> <<Q(0), Q(0)>>]
NoCall == [op |-> "none"]

InitScene ==
    /\ errors = {} /\ depth_maps = {} /\ cmd = {} /\ outputs = {}
    /\ report = [status |-> "processing", mentions |-> {}, message |-> "none"]
    /\ layout = [calculate_layout EXCEPT !.card_w = Q(0), !.card_h = Q(0)]
    /\ card = ZeroObj
    /\ text = [title |-> NoText, sub |-> NoText]
    /\ exists = {}
    /\ scene = NoObjects
    /\ obj = [p \in Pieces |-> ZeroObj]
    /\ cur = 0 /\ step = 1
    /\ ran = [p \in Pieces |-> {}]
    /\ trace = [p \in Pieces |-> <<>>]
    /\ preTrim = [p \in Pieces |-> NoRect]
    /\ figure_rec = NoRec
    /\ accessories = <<>> /\ acc_positions = <<>> /\ acc_dims_list = <<>> /\ acc_img_paths = <<>>
    /\ recStage = [p \in Pieces |-> "none"]
    /\ blendSaved = FALSE
    /\ blendScene = [objects |-> NoObjects, card |-> ZeroObj,
                     obj |-> [p \in Pieces |-> ZeroObj], text |-> [title |-> NoText, sub |-> NoText]]
    /\ stl = [exported |-> FALSE, failed |-> FALSE, parts |-> {}, bb |-> NoRect, copies |-> NoObjects]
    /\ tex = [canvas |-> <<0, 0>>, pasted |-> {}, text |-> FALSE, saved |-> FALSE]
    /\ paste = NoPaste
    /\ ti = 1

\* OrderProcessor.__init__; an order is [n, job, retry]: its number in the
\* order of arrival, its job_id and whether retry_order queued it
MaxOrders == 3
Tasks == 1..MaxOrders
NoOrder == [n |-> 0, job |-> 0, retry |-> FALSE]
InitQueue ==
    /\ queue = <<>>
    /\ processing = FALSE
    /\ current_job = 0
    /\ workers = [w \in Tasks |-> [st |-> "none", order |-> NoOrder]]
    /\ enqueued = <<>> /\ started = <<>> /\ failed = {}

\* An accessory image is known by the number k of the accessory it was
\* requested as and by the run that generated it (its timestamp)
MaxRuns == 3
NoImg == [k |-> 0, run |-> 0]
Img(k, r) == [k |-> k, run |-> r]
\* indices of accessory_imgs: at most three images per run
Slots == 1..(Cardinality(AccIds) * MaxRuns)
NoArgs == [n \in AccIds |-> [img |-> NoImg, depth |-> NoImg]]
InitRetry ==
    /\ run = 0 /\ from_step = 1 /\ spc = "idle" /\ executed = <<>>
    /\ figure_files = [img |-> FALSE, depth |-> FALSE]
    /\ generated = {}
    /\ nobg_files = [i \in Slots |-> NoImg]
    /\ depth_files = [i \in Slots |-> NoImg]
    /\ accessory_imgs = <<>>
    /\ depth_of = [i \in Slots |-> NoImg]
    /\ blender_acc = NoArgs

\* The progress map of a job: as /submit-job creates it, or as the Shopify
\* handler creates it
JobKinds == {"api", "shopify"}
NewProgress(kind) ==
    IF kind = "api"
    THEN [k \in {"upload", "ai_generation", "background_removal", "3d_conversion",
                 "sticker_generation"} |-> "pending"]
    ELSE [k \in {"upload", "ai_generation", "background_removal", "3d_conversion",
                 "blender_processing"} |-> IF k = "upload" THEN "completed" ELSE "pending"]
InitJob ==
    /\ job_status = "queued"
    /\ progress = NewProgress("api")
    /\ jpc = "queued" /\ executing = "none"
    /\ n_images = 0 /\ n_nobg = 0 /\ n_models = 0

Init ==
    /\ pc = "o_step4"
    /\ figIn \in FigInputs
    /\ accIn \in [AccIds -> AccInputs]
    /\ titleIn \in TitleInputs
    /\ subIn \in SubtitleInputs
    /\ InitScene
    /\ call = NoCall /\ result = NoCall
    /\ InitQueue
    /\ InitRetry
    /\ InitJob


(***************************************************************************)
(* OrderProcessor._process_order, from step 4 on                           *)
(***************************************************************************)
\* Step 4: depth maps.  A failed figure depth map raises; the handler
\* stores the exception text (which names no accessory) and re-raises.
\* A failed accessory depth map is appended to errors.
Step4DepthMaps ==
    /\ pc = "o_step4"
    /\ IF figIn = "depth_failed"
       THEN /\ report' = [status |-> "failed", mentions |-> {}, message |-> "Figure depth map failed"]
            /\ pc' = "o_done"
            /\ UNCHANGED <<errors, depth_maps>>
       ELSE /\ depth_maps' = {0} \cup {k \in AccIds : accIn[k] # "depth_failed"}
            /\ errors' = {k \in AccIds : accIn[k] = "depth_failed"}
            /\ pc' = "o_cmd"
            /\ UNCHANGED report
    /\ UNCHANGED <<jobVars, cmd, outputs, sceneVars, recVars, outVars, unitVars, queueVars, retryVars, apiVars>>

\* Step 5: the Blender command line
BuildBlenderCmd ==
    /\ pc = "o_cmd"
    /\ cmd' = {k \in AccIds : k \in depth_maps /\ k <= 3}
    /\ pc' = "b_layout"
    /\ UNCHANGED <<jobVars, errors, depth_maps, outputs, report, sceneVars, recVars, outVars, unitVars, queueVars, retryVars, apiVars>>

(***************************************************************************)
(* blender_starter_pack.main                                               *)
(***************************************************************************)
CalculateLayout ==
    /\ pc = "b_layout"
    /\ layout' = calculate_layout
    /\ pc' = "b_base"
    /\ UNCHANGED <<jobVars, orderVars, card, text, exists, scene, obj, cur, step, ran, trace, preTrim,
                   recVars, outVars, unitVars, queueVars, retryVars, apiVars>>

CreateBasePlate ==
    /\ pc = "b_base"
    /\ card' = create_base_plate
    /\ scene' = AddObj(scene, "Card", MeshObject(CUBE_POLYGONS, <<>>))
    /\ pc' = "b_text"
    /\ UNCHANGED <<jobVars, orderVars, layout, text, exists, obj, cur, step, ran, trace, preTrim,
                   recVars, outVars, unitVars, queueVars, retryVars, apiVars>>

\* Step 1b: title and subtitle, if either is given
AddText ==
    /\ pc = "b_text"
    /\ text' = IF titleIn # <<>> \/ subIn # <<>>
               THEN add_title_and_subtitle(titleIn, subIn)
               ELSE text
    /\ scene' = IF titleIn # <<>> \/ subIn # <<>>
                THEN text_objects(scene, titleIn, subIn)
                ELSE scene
    /\ pc' = "b_fig"
    /\ UNCHANGED <<jobVars, orderVars, layout, card, exists, obj, cur, step, ran, trace, preTrim,
                   recVars, outVars, unitVars, queueVars, retryVars, apiVars>>

\* Step 2: create_displaced_mesh for the figure.  It returns None when the
\* depth file does not exist, and main then goes on without a figure.
CreateFigure ==
    /\ pc = "b_fig"
    /\ \E load \in (IF figIn = "bad_depth" THEN LoadOutcomes ELSE {"loaded"}) :
        /\ IF figIn = "missing"
           THEN /\ pc' = "b_acc"
                /\ cur' = 1
                /\ UNCHANGED <<exists, scene, obj, step>>
           ELSE IF load = "raises"
           THEN /\ pc' = "b_crashed"
                /\ UNCHANGED <<exists, scene, obj, cur, step>>
           ELSE /\ exists' = exists \cup {0}
                /\ scene' = AddObj(scene, PieceName(0), ReliefObject)
                /\ obj' = [obj EXCEPT ![0] = create_displaced_mesh(
                              IF figIn = "ok" THEN DISPLACEMENT_STRENGTH_FIGURE ELSE Q(0))]
                /\ cur' = 0 /\ step' = 1
                /\ pc' = "b_pos"
    /\ UNCHANGED <<jobVars, orderVars, layout, card, text, ran, trace, preTrim, recVars, outVars, unitVars, queueVars, retryVars, apiVars>>

\* The steps of position_figure / position_accessory on the current piece
AtStep(name) == pc = "b_pos" /\ step <= Len(PositionSteps(cur)) /\ PositionSteps(cur)[step] = name

StepTo(o, name) ==
    /\ obj' = [obj EXCEPT ![cur] = o]
    /\ ran' = [ran EXCEPT ![cur] = @ \cup {name}]
    /\ trace' = [trace EXCEPT ![cur] = Append(@, name)]
    /\ step' = step + 1
    /\ UNCHANGED <<pc, cur, exists, layout, card, text>>

XYRectMm(o) ==
    [x0 |-> M2Mm(o.bb.x0), x1 |-> M2Mm(o.bb.x1), y0 |-> M2Mm(o.bb.y0), y1 |-> M2Mm(o.bb.y1)]

CenterXY ==
    /\ AtStep("center_xy")
    /\ StepTo(center_xy(obj[cur]), "center_xy")
    /\ UNCHANGED <<jobVars, orderVars, scene, preTrim, recVars, outVars, unitVars, queueVars, retryVars, apiVars>>

RestOnZ0 ==
    /\ AtStep("rest_on_z0")
    /\ StepTo(rest_on_z0(obj[cur]), "rest_on_z0")
    /\ UNCHANGED <<jobVars, orderVars, scene, preTrim, recVars, outVars, unitVars, queueVars, retryVars, apiVars>>

UniformFit ==
    /\ AtStep("uniform_fit")
    /\ LET d == world_dims(obj[cur])
           fit == IF cur = 0
                  THEN uniform_fit(d.x, d.y, layout.fig_slot_w, layout.fig_slot_h,
                                   Q(MARGIN_FIGURE), SIZE_BOOST_FIGURE)
                  ELSE uniform_fit(d.x, d.y, layout.acc_slot_w, layout.acc_cell_h,
                                   Q(MARGIN_ACCESSORIES), SIZE_BOOST_ACCESSORIES)
       IN  StepTo(IF fit[1] THEN ScaleAboutOrigin(obj[cur], fit[2]) ELSE obj[cur], "uniform_fit")
    /\ UNCHANGED <<jobVars, orderVars, scene, preTrim, recVars, outVars, unitVars, queueVars, retryVars, apiVars>>

SetLocation ==
    /\ AtStep("set_location")
    /\ StepTo(IF cur = 0
              THEN set_location_xy(obj[cur], layout.fig_x, layout.fig_y)
              ELSE set_location_xy(obj[cur], layout.acc_x, layout.acc_centers_y[cur]),
              "set_location")
    /\ UNCHANGED <<jobVars, orderVars, scene, preTrim, recVars, outVars, unitVars, queueVars, retryVars, apiVars>>

SnapBottom ==
    /\ AtStep("snap")
    /\ StepTo(snap_bottom_to_base_top(obj[cur], card, Q(0)), "snap")
    /\ UNCHANGED <<jobVars, orderVars, scene, preTrim, recVars, outVars, unitVars, queueVars, retryVars, apiVars>>

Sink ==
    /\ AtStep("sink")
    /\ LET o == sink_mesh_plane_into_card(obj[cur], MESH_PLANE_SINK_DEPTH)
       IN  /\ StepTo(o, "sink")
           /\ preTrim' = [preTrim EXCEPT ![cur] = XYRectMm(o)]
    /\ UNCHANGED <<jobVars, orderVars, scene, recVars, outVars, unitVars, queueVars, retryVars, apiVars>>

\* the measurement of a piece's record: bounding-box centre and dimensions, in mm
MeasurePos(o) ==
    <<RMul(RHalf(RAdd(o.bb.x0, o.bb.x1)), Q(1000)), RMul(RHalf(RAdd(o.bb.y0, o.bb.y1)), Q(1000))>>
MeasureDims(o) == <<RMul(world_dims(o).x, Q(1000)), RMul(world_dims(o).y, Q(1000))>>

StageOf(p) ==
    IF "trim" \in ran[p] \/ "cut" \in ran[p] THEN "post_trim"
    ELSE IF "sink" \in ran[p] THEN "pre_trim"
    ELSE "pre_sink"

\* position_figure: CAPTURE PRE-TRIM position and dimensions
CapturePreTrim ==
    /\ AtStep("capture")
    /\ figure_rec' = [has |-> TRUE, pos |-> MeasurePos(obj[cur]), dims |-> MeasureDims(obj[cur])]
    /\ recStage' = [recStage EXCEPT ![cur] = StageOf(cur)]
    /\ StepTo(obj[cur], "capture")
    /\ UNCHANGED <<jobVars, orderVars, scene, preTrim, accessories, acc_positions, acc_dims_list,
                   acc_img_paths, outVars, unitVars, queueVars, retryVars, apiVars>>

TrimToCard ==
    /\ AtStep("trim")
    /\ StepTo(trim_to_card_boundaries(obj[cur], Mm2M(Q(CARD_WIDTH)), Mm2M(Q(CARD_HEIGHT))), "trim")
    /\ scene' = trim_objects(scene, obj[cur], Mm2M(Q(CARD_WIDTH)), Mm2M(Q(CARD_HEIGHT)))
    /\ UNCHANGED <<jobVars, orderVars, preTrim, recVars, outVars, unitVars, queueVars, retryVars, apiVars>>

CutBelowCard ==
    /\ AtStep("cut")
    /\ StepTo(cut_below_card(obj[cur], Mm2M(Q(CARD_THICKNESS))), "cut")
    /\ scene' = cut_objects(scene, obj[cur], Mm2M(Q(CARD_THICKNESS)))
    /\ UNCHANGED <<jobVars, orderVars, preTrim, recVars, outVars, unitVars, queueVars, retryVars, apiVars>>

ShadeSmooth ==
    /\ AtStep("smooth")
    /\ StepTo(obj[cur], "smooth")
    /\ UNCHANGED <<jobVars, orderVars, scene, preTrim, recVars, outVars, unitVars, queueVars, retryVars, apiVars>>


\* position_figure returns: main keeps figure_pos, figure_dims
ReturnFigure ==
    /\ pc = "b_pos" /\ cur = 0 /\ step > Len(PositionSteps(cur))
    /\ pc' = "b_acc" /\ cur' = 1 /\ step' = 1
    /\ UNCHANGED <<jobVars, orderVars, layout, card, text, exists, scene, obj, ran, trace, preTrim,
                   recVars, outVars, unitVars, queueVars, retryVars, apiVars>>

\* Step 3, one turn of the loop over the three accessories: skip the
\* accessory unless both paths are given and both files exist; otherwise
\* create its mesh (which loads the depth and the colour image)
NextAccessory(k) == IF k = 3 THEN "b_save" ELSE "b_acc"

CreateAccessory ==
    /\ pc = "b_acc"
    /\ \E load \in (IF accIn[cur] = "bad_img" THEN LoadOutcomes ELSE {"loaded"}) :
        IF ~(cur \in cmd /\ accIn[cur] # "missing")
        THEN /\ pc' = NextAccessory(cur)
             /\ cur' = IF cur = 3 THEN cur ELSE cur + 1
             /\ UNCHANGED <<exists, scene, obj, step>>
        ELSE IF load = "raises"
        THEN /\ pc' = "b_crashed"
             /\ UNCHANGED <<exists, scene, obj, cur, step>>
        ELSE /\ exists' = exists \cup {cur}
             /\ scene' = AddObj(scene, PieceName(cur), ReliefObject)
             /\ obj' = [obj EXCEPT ![cur] = create_displaced_mesh(DISPLACEMENT_STRENGTH_ACCESSORIES)]
             /\ step' = 1
             /\ pc' = "b_pos"
             /\ UNCHANGED cur
    /\ UNCHANGED <<jobVars, orderVars, layout, card, text, ran, trace, preTrim, recVars, outVars, unitVars, queueVars, retryVars, apiVars>>

\* main, after position_accessory has returned: the accessory's bounding
\* box is measured and appended to the lists for the print texture
RecordAccessory ==
    /\ pc = "b_pos" /\ cur # 0 /\ step > Len(PositionSteps(cur))
    /\ accessories' = Append(accessories, cur)
    /\ acc_positions' = Append(acc_positions, MeasurePos(obj[cur]))
    /\ acc_dims_list' = Append(acc_dims_list, MeasureDims(obj[cur]))
    /\ acc_img_paths' = Append(acc_img_paths, cur)
    /\ recStage' = [recStage EXCEPT ![cur] = StageOf(cur)]
    /\ pc' = NextAccessory(cur)
    /\ cur' = IF cur = 3 THEN cur ELSE cur + 1
    /\ step' = 1
    /\ UNCHANGED <<jobVars, orderVars, layout, card, text, exists, scene, obj, ran, trace, preTrim,
                   figure_rec, outVars, unitVars, queueVars, retryVars, apiVars>>

SaveBlend ==
    /\ pc = "b_save"
    /\ blendSaved' = TRUE
    /\ blendScene' = [objects |-> scene, card |-> card, obj |-> obj, text |-> text]
    /\ pc' = "b_export"
    /\ UNCHANGED <<jobVars, orderVars, sceneVars, recVars, stl, tex, paste, ti, unitVars, queueVars, retryVars, apiVars>>

\* export_stl: copies of the card, the figure (if any), the accessories and
\* the text objects are joined and exported, scaled from metres to mm
RMinOf(S) == CHOOSE a \in S : \A b \in S : RLe(a, b)
RMaxOf(S) == CHOOSE a \in S : \A b \in S : RLe(b, a)

\* export_stl: the threshold of the polygon reduction
DECIMATE_MIN_POLYGONS == 1000

CopyName(n) ==
    CASE n = "Card" -> "Card_copy"
      [] n = "Figure" -> "Figure_copy"
      [] n = "Accessory_1" -> "Accessory_1_copy"
      [] n = "Accessory_2" -> "Accessory_2_copy"
      [] n = "Accessory_3" -> "Accessory_3_copy"
      [] n = "Title" -> "Title_copy"
      [] n = "Subtitle" -> "Subtitle_copy"

\* the names of objects_to_join and of text_objects
MeshNames(figure_present, accs) ==
    {"Card"} \cup (IF figure_present THEN {"Figure"} ELSE {})
             \cup {PieceName(accs[i]) : i \in 1..Len(accs)}
TextNames(text_objs) ==
    (IF text_objs.title.has THEN {"Title"} ELSE {}) \cup (IF text_objs.sub.has THEN {"Subtitle"} ELSE {})

RECURSIVE Pow(_, _)
Pow(b, e) == IF e = 0 THEN 1 ELSE b * Pow(b, e - 1)

\* the polygons of a duplicate once its modifiers are applied: each level
\* of Catmull-Clark subdivision splits a quad in four
BakedPolygons(o) ==
    IF \E i \in 1..Len(o.mods) : o.mods[i] = "Subdivision"
    THEN o.polys * Pow(4, SUBSURF_LEVELS)
    ELSE o.polys

\* export_stl: the duplicates that are joined, by name: polys is the number
\* of polygons before the reduction, decimated whether the duplicate got the
\* Decimate modifier; text_polys gives the polygons of each converted text
export_copies(sc, meshes, texts, text_polys) ==
    [c \in {CopyName(n) : n \in meshes \cup texts} |->
        LET n == CHOOSE m \in meshes \cup texts : CopyName(m) = c
        IN  IF n \in meshes
            THEN [polys |-> BakedPolygons(sc[n]),
                  decimated |-> sc[n].type = "MESH" /\ BakedPolygons(sc[n]) > DECIMATE_MIN_POLYGONS]
            ELSE [polys |-> text_polys[n], decimated |-> FALSE]]

\* the scene while the duplicates exist
ObjectsWithCopies(sc, meshes, texts) ==
    [m \in DOMAIN sc \cup {CopyName(n) : n \in meshes \cup texts} |->
        IF m \in DOMAIN sc THEN sc[m] ELSE MeshObject(0, <<>>)]
\* bpy.ops.object.join: the selected objects become one, named ExportMesh
ObjectsJoined(sc, joined) ==
    [m \in (DOMAIN sc \ joined) \cup {"ExportMesh"} |->
        IF m \in DOMAIN sc \ joined THEN sc[m] ELSE MeshObject(0, <<>>)]

export_objects_join_originals(sc, meshes, texts) ==
    DelObj(ObjectsJoined(sc, meshes \cup texts), "ExportMesh")

\* export_stl: the objects of the scene when it returns
export_objects(sc, meshes, texts) ==
    DelObj(ObjectsJoined(ObjectsWithCopies(sc, meshes, texts),
                         {CopyName(n) : n \in meshes \cup texts}),
           "ExportMesh")

export_stl(card_o, figure_present, figure_o, accs, text_objs) ==
    LET boxes == {[x0 |-> card_o.bb.x0, x1 |-> card_o.bb.x1, y0 |-> card_o.bb.y0, y1 |-> card_o.bb.y1]}
                 \cup (IF figure_present
                       THEN {[x0 |-> figure_o.bb.x0, x1 |-> figure_o.bb.x1,
                              y0 |-> figure_o.bb.y0, y1 |-> figure_o.bb.y1]}
                       ELSE {})
                 \cup {[x0 |-> obj[accs[i]].bb.x0, x1 |-> obj[accs[i]].bb.x1,
                        y0 |-> obj[accs[i]].bb.y0, y1 |-> obj[accs[i]].bb.y1] : i \in 1..Len(accs)}
                 \cup {TextBox(t) : t \in {u \in {text_objs.title, text_objs.sub} : u.has}}
    IN  [exported |-> TRUE,
         failed |-> FALSE,
         copies |-> NoObjects,
         parts |-> {"Card"} \cup (IF figure_present THEN {"Figure"} ELSE {})
                   \cup {PieceName(accs[i]) : i \in 1..Len(accs)}
                   \cup (IF text_objs.title.has THEN {"Title"} ELSE {})
                   \cup (IF text_objs.sub.has THEN {"Subtitle"} ELSE {}),
         bb |-> [x0 |-> M2Mm(RMinOf({b.x0 : b \in boxes})), x1 |-> M2Mm(RMaxOf({b.x1 : b \in boxes})),
                 y0 |-> M2Mm(RMinOf({b.y0 : b \in boxes})), y1 |-> M2Mm(RMaxOf({b.y1 : b \in boxes}))]]

\* bpy.ops.object.join or bpy.ops.wm.stl_export can raise (RuntimeError);
\* neither export_stl nor main has a handler
ExportOutcomes == {"ok", "join_raises", "export_raises"}
\* the polygons of a text once bpy.ops.object.convert has made it a mesh
MaxTextPolygons == 2
TextPolygonCounts == {DECIMATE_MIN_POLYGONS * i : i \in 1..MaxTextPolygons}

ExportStl ==
    /\ pc = "b_export"
    /\ \E outcome \in ExportOutcomes, text_polys \in [TextNames(text) -> TextPolygonCounts] :
        LET meshes == MeshNames(0 \in exists, accessories)
            texts == TextNames(text)
            copied == ObjectsWithCopies(scene, meshes, texts)
        IN  IF outcome = "join_raises"
            THEN /\ stl' = [stl EXCEPT !.failed = TRUE]
                 /\ scene' = copied
                 /\ pc' = "b_crashed"
            ELSE IF outcome = "export_raises"
            THEN /\ stl' = [stl EXCEPT !.failed = TRUE]
                 /\ scene' = ObjectsJoined(copied, {CopyName(n) : n \in meshes \cup texts})
                 /\ pc' = "b_crashed"
            ELSE /\ stl' = [export_stl(card, 0 \in exists, obj[0], accessories, text)
                             EXCEPT !.copies = export_copies(scene, meshes, texts, text_polys)]
                 /\ scene' = export_objects(scene, meshes, texts)
                 /\ pc' = "b_canvas"
    /\ UNCHANGED <<jobVars, orderVars, layout, card, text, exists, obj, cur, step, ran, trace, preTrim,
                   recVars, blendSaved, blendScene, tex, paste, ti, unitVars, queueVars, retryVars, apiVars>>

\* create_uv_print_texture: the canvas
CreateCanvas ==
    /\ pc = "b_canvas"
    /\ tex' = [tex EXCEPT !.canvas = <<canvas_px(CARD_WIDTH, DPI), canvas_px(CARD_HEIGHT, DPI)>>]
    /\ pc' = "b_place_fig"
    /\ UNCHANGED <<jobVars, orderVars, sceneVars, recVars, blendSaved, blendScene, stl, paste, ti, unitVars, queueVars, retryVars, apiVars>>

Pasted(p, sz, pos, dims) ==
    [has |-> TRUE, piece |-> p, img |-> sz,
     rect |-> place_image(sz, pos[1], pos[2], dims[1], dims[2], DPI),
     pos |-> pos, dims |-> dims]

\* create_uv_print_texture: the figure image, if main has a figure record
PlaceFigure ==
    /\ pc = "b_place_fig"
    /\ \E sz \in ImageSizes :
        IF figure_rec.has
        THEN /\ paste' = Pasted(0, sz, figure_rec.pos, figure_rec.dims)
             /\ tex' = [tex EXCEPT !.pasted = @ \cup {0}]
        ELSE UNCHANGED <<paste, tex>>
    /\ ti' = 1
    /\ pc' = "b_place_acc"
    /\ UNCHANGED <<jobVars, orderVars, sceneVars, recVars, blendSaved, blendScene, stl, unitVars, queueVars, retryVars, apiVars>>

\* create_uv_print_texture: one turn of the loop over the zipped accessory
\* lists; Image.open raises on a file that is no decodable image
PlaceAccessory ==
    /\ pc = "b_place_acc"
    /\ ti <= Len(acc_img_paths)
    /\ \E sz \in ImageSizes :
        IF accIn[acc_img_paths[ti]] = "bad_img"
        THEN /\ pc' = "b_crashed"
             /\ UNCHANGED <<paste, tex, ti>>
        ELSE /\ paste' = Pasted(acc_img_paths[ti], sz, acc_positions[ti], acc_dims_list[ti])
             /\ tex' = [tex EXCEPT !.pasted = @ \cup {acc_img_paths[ti]}]
             /\ ti' = ti + 1
             /\ UNCHANGED pc
    /\ UNCHANGED <<jobVars, orderVars, sceneVars, recVars, blendSaved, blendScene, stl, unitVars, queueVars, retryVars, apiVars>>

\* create_uv_print_texture: the text layer is composited and the PNG saved
SaveTexture ==
    /\ pc = "b_place_acc"
    /\ ti > Len(acc_img_paths)
    /\ tex' = [tex EXCEPT !.text = text.title.has \/ text.sub.has, !.saved = TRUE]
    /\ pc' = "b_done"
    /\ UNCHANGED <<jobVars, orderVars, sceneVars, recVars, blendSaved, blendScene, stl, paste, ti, unitVars, queueVars, retryVars, apiVars>>

(***************************************************************************)
(* OrderProcessor._process_order, after Blender has exited.  Blender is    *)
(* run without --python-exit-code, so it exits with 0 also when the script *)
(* raised; the files that exist decide.                                    *)
(***************************************************************************)
CollectOutputs ==
    /\ pc \in {"b_done", "b_crashed"}
    /\ outputs' = (IF stl.exported THEN {"stl"} ELSE {})
                  \cup (IF tex.saved THEN {"texture"} ELSE {})
                  \cup (IF blendSaved THEN {"blend"} ELSE {})
    /\ pc' = "o_final"
    /\ UNCHANGED <<jobVars, errors, depth_maps, cmd, report, sceneVars, recVars, outVars, unitVars, queueVars, retryVars, apiVars>>

\* FINAL: update_order_outputs stores the paths and status "completed";
\* update_order_status stores "failed" and the joined errors
FinalReport ==
    /\ pc = "o_final"
    /\ LET success == "stl" \in outputs /\ "texture" \in outputs
       IN  report' = IF success
                     THEN [status |-> "completed", mentions |-> {}, message |-> "none"]
                     ELSE [status |-> "failed", mentions |-> errors,
                           message |-> IF errors # {} THEN "accessory depth map failed"
                                       ELSE "Unknown error"]
    /\ pc' = "o_done"
    /\ UNCHANGED <<jobVars, errors, depth_maps, cmd, outputs, sceneVars, recVars, outVars, unitVars, queueVars, retryVars, apiVars>>

Next ==
    \/ Step4DepthMaps \/ BuildBlenderCmd
    \/ CalculateLayout \/ CreateBasePlate \/ AddText \/ CreateFigure
    \/ CenterXY \/ RestOnZ0 \/ UniformFit \/ SetLocation \/ SnapBottom \/ Sink
    \/ CapturePreTrim \/ TrimToCard \/ CutBelowCard \/ ShadeSmooth
    \/ ReturnFigure \/ CreateAccessory \/ RecordAccessory
    \/ SaveBlend \/ ExportStl
    \/ CreateCanvas \/ PlaceFigure \/ PlaceAccessory \/ SaveTexture
    \/ CollectOutputs \/ FinalReport

Spec == Init /\ [][Next]_vars


(***************************************************************************)
(* The pure functions on their own: one call of uniform_fit (also with the *)
(* width and height roles swapped) or of the canvas size computation, on   *)
(* inputs drawn from bounded sets.                                         *)
(***************************************************************************)
MaxFitDim == 3
\* source dimensions in metres: 40, 80, 120 mm and one below eps = 1e-9
FitDims == {Frac(4 * i, 100) : i \in 1..MaxFitDim} \cup {<<1, 2000000000>>}
\* targets in mm; with the margins 3 and 5, 5 and 6 leave no room at all
FitTargets == {5, 6, 7, 52, 78}
FitMargins == {MARGIN_ACCESSORIES, MARGIN_FIGURE}
FitBoosts == {SIZE_BOOST_FIGURE, SIZE_BOOST_ACCESSORIES}
CanvasCardMm == {100, 127, CARD_WIDTH, CARD_HEIGHT}
CanvasDpi == {150, DPI, 600}

FitCalls ==
    [op : {"fit"}, d_x : FitDims, d_y : FitDims, target_w : FitTargets, target_h : FitTargets,
     margin : FitMargins, size_boost : FitBoosts]
CanvasCalls == [op : {"canvas"}, card_mm : CanvasCardMm, dpi : CanvasDpi]
\* raw sizes of a text object in mm; a text without glyph outlines (blanks)
\* has neither width nor height
MaxTextDim == 5
TextWidths == {30 * i : i \in 1..MaxTextDim}
TextHeights == {4 * i : i \in 1..MaxTextDim}
TextRoles == {"title", "subtitle"}
TextCalls ==
    [op : {"text"}, w : TextWidths, h : TextHeights, role : TextRoles]
    \cup [op : {"text"}, w : {0}, h : {0}, role : TextRoles]
RoleMaxWidth(role) == IF role = "title" THEN TITLE_MAX_WIDTH ELSE SUBTITLE_MAX_WIDTH
RoleMaxHeight(role) == IF role = "title" THEN TITLE_MAX_HEIGHT ELSE SUBTITLE_MAX_HEIGHT

\* the bottom Z of a relief piece before the sink, in mm, and its relief
MaxSinkZ == 4
SinkBottoms == (0 - MaxSinkZ)..MaxSinkZ
SinkReliefs == {DISPLACEMENT_STRENGTH_FIGURE, DISPLACEMENT_STRENGTH_ACCESSORIES}
SinkCalls == [op : {"sink"}, z0 : SinkBottoms, relief : SinkReliefs]

\* the centre of a piece before the trim, in steps of 25 mm: at one step
\* the 80 x 120 mm plane touches the card's edge, at two it crosses it
MaxTrimOff == 2
TrimOffsets == {25 * i : i \in (0 - MaxTrimOff)..MaxTrimOff}
TrimCalls == [op : {"trim"}, cx : TrimOffsets, cy : TrimOffsets]

InitUnit ==
    /\ pc = "unit"
    /\ figIn = "ok" /\ accIn = [k \in AccIds |-> "ok"]
    /\ titleIn = <<>> /\ subIn = <<>>
    /\ InitScene
    /\ call \in FitCalls \cup CanvasCalls \cup TextCalls \cup SinkCalls \cup TrimCalls
    /\ result = NoCall
    /\ InitQueue
    /\ InitRetry
    /\ InitJob

ApplyFit ==
    /\ pc = "unit" /\ call.op = "fit" /\ result = NoCall
    /\ result' = [op |-> "fit",
                  fit |-> uniform_fit(call.d_x, call.d_y, Q(call.target_w), Q(call.target_h),
                                      Q(call.margin), call.size_boost),
                  swapped |-> uniform_fit(call.d_y, call.d_x, Q(call.target_h), Q(call.target_w),
                                          Q(call.margin), call.size_boost)]
    /\ UNCHANGED <<pc, jobVars, orderVars, sceneVars, recVars, outVars, call, queueVars, retryVars, apiVars>>

ApplyCanvas ==
    /\ pc = "unit" /\ call.op = "canvas" /\ result = NoCall
    /\ result' = [op |-> "canvas", px |-> canvas_px(call.card_mm, call.dpi)]
    /\ UNCHANGED <<pc, jobVars, orderVars, sceneVars, recVars, outVars, call, queueVars, retryVars, apiVars>>

\* add_title_and_subtitle fitting one text object: the dimensions in mm after
\* scale_text_to_fit
ApplyText ==
    /\ pc = "unit" /\ call.op = "text" /\ result = NoCall
    /\ result' = [op |-> "text",
                  dims |-> LET d == scale_text_to_fit(<<Mm2M(Q(call.w)), Mm2M(Q(call.h))>>,
                                                      RoleMaxWidth(call.role), RoleMaxHeight(call.role))
                           IN  <<M2Mm(d[1]), M2Mm(d[2])>>]
    /\ UNCHANGED <<pc, jobVars, orderVars, sceneVars, recVars, outVars, call, queueVars, retryVars, apiVars>>

\* position_figure / position_accessory from the sink to the cut, on a piece
\* whose bottom is at call.z0
ApplySink ==
    /\ pc = "unit" /\ call.op = "sink" /\ result = NoCall
    /\ LET o0 == Translate(create_displaced_mesh(call.relief), Q(0), Q(0), Mm2M(Q(call.z0)))
           o1 == sink_mesh_plane_into_card(o0, MESH_PLANE_SINK_DEPTH)
           o2 == trim_to_card_boundaries(o1, Mm2M(Q(CARD_WIDTH)), Mm2M(Q(CARD_HEIGHT)))
           o3 == cut_below_card(o2, Mm2M(Q(CARD_THICKNESS)))
       IN  result' = [op |-> "sink", before |-> o0, after |-> o3]
    /\ UNCHANGED <<pc, jobVars, orderVars, sceneVars, recVars, outVars, call, queueVars, retryVars, apiVars>>

\* trim_to_card_boundaries on a piece centred at (call.cx, call.cy), in a
\* scene that holds the card and the piece
ApplyTrim ==
    /\ pc = "unit" /\ call.op = "trim" /\ result = NoCall
    /\ LET o0 == Translate(create_displaced_mesh(DISPLACEMENT_STRENGTH_FIGURE),
                           Mm2M(Q(call.cx)), Mm2M(Q(call.cy)), Q(0))
           sc0 == AddObj(AddObj(NoObjects, "Card", MeshObject(CUBE_POLYGONS, <<>>)),
                         PieceName(0), ReliefObject)
       IN  result' = [op |-> "trim",
                      before |-> o0,
                      after |-> trim_to_card_boundaries(o0, Mm2M(Q(CARD_WIDTH)), Mm2M(Q(CARD_HEIGHT))),
                      objects_before |-> sc0,
                      objects_after |-> trim_objects(sc0, o0, Mm2M(Q(CARD_WIDTH)), Mm2M(Q(CARD_HEIGHT)))]
    /\ UNCHANGED <<pc, jobVars, orderVars, sceneVars, recVars, outVars, call, queueVars, retryVars, apiVars>>

NextUnit == ApplyFit \/ ApplyCanvas \/ ApplyText \/ ApplySink \/ ApplyTrim

SpecUnit == InitUnit /\ [][NextUnit]_vars


(***************************************************************************)
(* Properties                                                              *)
(***************************************************************************)
Within(a, b, tol) == RLe(RAbs(RSub(a, b)), tol)
RectCx(r) == RHalf(RAdd(r.x0, r.x1))
RectCy(r) == RHalf(RAdd(r.y0, r.y1))
\* mm to pixels at the configured DPI, without truncation
ToPx(a) == RMul(a, RDiv(Q(DPI), MM_PER_INCH))

\* C1: whenever create_uv_print_texture has pasted a piece's image, of
\* whatever pixel size, the pasted rectangle equals the piece's pre-trim
\* rectangle (centre x, y and width, height) to within one pixel.
C1_PasteEqualsPreTrimRecord ==
    paste.has =>
        LET r == paste.rect
            P == preTrim[paste.piece]
        IN  /\ Within(RAdd(Q(r.x), Frac(r.w, 2)), ToPx(RAdd(RectCx(P), RHalf(Q(CARD_WIDTH)))), Q(1))
            /\ Within(RAdd(Q(r.y), Frac(r.h, 2)), ToPx(RSub(RHalf(Q(CARD_HEIGHT)), RectCy(P))), Q(1))
            /\ Within(Q(r.w), ToPx(RectW(P)), Q(1))
            /\ Within(Q(r.h), ToPx(RectH(P)), Q(1))

\* the size (cell - 2 * margin) * boost that the fit aims at, per axis, in mm
FitGoal(p) ==
    LET c == CellRect(layout, p)
        m == IF p = 0 THEN Q(2 * MARGIN_FIGURE) ELSE Q(2 * MARGIN_ACCESSORIES)
        b == IF p = 0 THEN SIZE_BOOST_FIGURE ELSE SIZE_BOOST_ACCESSORIES
    IN  <<RMul(RSub(RectW(c), m), b), RMul(RSub(RectH(c), m), b)>>

\* the records main holds: <<piece, dims>>
RecordedDims ==
    (IF figure_rec.has THEN {<<0, figure_rec.dims>>} ELSE {})
    \cup {<<accessories[i], acc_dims_list[i]>> : i \in 1..Len(accessories)}

\* C2 (as the spec states it): every recorded (width, height) equals
\* (cell width - 2 * margin, cell height - 2 * margin) * boost.
C2_RecordEqualsBoostedCell ==
    \A rd \in RecordedDims : rd[2] = FitGoal(rd[1])

\* C2 (amended): every recorded (width, height) keeps the 2 : 3 shape of the
\* relief plane, is at most (cell - 2 * margin) * boost on each axis and
\* equals it on the axis that limits the fit, also when the trim afterwards
\* reduced the piece.
C2_RecordFitsBoostedCell ==
    \A rd \in RecordedDims :
        LET g == FitGoal(rd[1])
            d == rd[2]
        IN  /\ RMul(d[1], Q(3)) = RMul(d[2], Q(2))
            /\ RLe(d[1], g[1]) /\ RLe(d[2], g[2])
            /\ d[1] = g[1] \/ d[2] = g[2]

\* the figure's record exists, and the trim has made the figure narrower
C2_Witness ==
    /\ figure_rec.has
    /\ "trim" \in ran[0]
    /\ RLt(M2Mm(world_dims(obj[0]).x), figure_rec.dims[1])
    /\ Len(accessories) > 0

\* C3: every piece's record, the figure's and each accessory's, is measured
\* after the sink step and before trim_to_card_boundaries and
\* cut_below_card have run on the piece.
C3_RecordCapturedBeforeTrim ==
    \A p \in Pieces : recStage[p] # "none" => recStage[p] = "pre_trim"

InsideCardM(bb) ==
    /\ RLe(RNeg(RHalf(Mm2M(Q(CARD_WIDTH)))), bb.x0) /\ RLe(bb.x1, RHalf(Mm2M(Q(CARD_WIDTH))))
    /\ RLe(RNeg(RHalf(Mm2M(Q(CARD_HEIGHT)))), bb.y0) /\ RLe(bb.y1, RHalf(Mm2M(Q(CARD_HEIGHT))))

\* C4: a piece that has been through the trim lies within the card
\* footprint in X and Y, and the XY bounding box of the exported mesh is
\* within the card's width and height.
C4_NothingOutsideCard ==
    /\ \A p \in exists : "trim" \in ran[p] => InsideCardM(obj[p].bb)
    /\ stl.exported => RectInside(stl.bb, CardRect)

\* an STL with a figure that reached beyond the card's left edge before the trim
C4_Witness ==
    /\ stl.exported
    /\ "Figure" \in stl.parts
    /\ RLt(preTrim[0].x0, CardRect.x0)
    /\ stl.bb.x0 = CardRect.x0

\* C5: when the figure's depth image is missing or cannot be loaded, no STL
\* is exported and the job is not reported as completed.
C5_NoCardWithoutFigure ==
    figIn \in {"missing", "bad_depth"} => ~stl.exported /\ report.status # "completed"

\* C6: with the figure available, whichever accessories are absent or
\* unreadable, the run ends with an STL and a texture that hold the card,
\* the figure and exactly the accessories that were available.
Available == {k \in AccIds : accIn[k] = "ok"}

C6_CompletesWithAvailableAccessories ==
    (pc = "o_final" /\ figIn = "ok") =>
        /\ stl.exported /\ tex.saved
        /\ {"Card", "Figure"} \subseteq stl.parts
        /\ \A k \in AccIds : PieceName(k) \in stl.parts <=> k \in Available
        /\ tex.pasted = {0} \cup Available

\* C7: a job reported as completed has every accessory that its card lacks
\* recorded in the reported result.
C7_OmissionsReported ==
    report.status = "completed" =>
        \A k \in AccIds : PieceName(k) \notin stl.parts => k \in report.mentions


\* the scale factor as the spec writes it, all lengths in mm
FitFormula(c) ==
    RMul(RMin(RDiv(RSub(Q(c.target_w), Q(2 * c.margin)), M2Mm(c.d_x)),
              RDiv(RSub(Q(c.target_h), Q(2 * c.margin)), M2Mm(c.d_y))),
         c.size_boost)

\* the same with each target less twice the margin kept at 0.001 mm or more
FitFormulaFloored(c) ==
    RMul(RMin(RDiv(RMax(RSub(Q(c.target_w), Q(2 * c.margin)), <<1, 1000>>), M2Mm(c.d_x)),
              RDiv(RMax(RSub(Q(c.target_h), Q(2 * c.margin)), <<1, 1000>>), M2Mm(c.d_y))),
         c.size_boost)

\* a source dimension below 1e-9 m
Degenerate(d) == RLtInv(d, EPS_INV)

\* C8 (as the spec states it): for all positive inputs uniform_fit scales by
\* min((targetW - 2 margin) / srcW, (targetH - 2 margin) / srcH) * boost, and
\* by the same factor when the width and height roles are swapped.
C8_FitScaleIsFormula ==
    result.op = "fit" =>
        /\ result.fit[1]
        /\ result.fit[2] = FitFormula(call)
        /\ result.swapped = result.fit

\* C8 (amended): uniform_fit leaves the scale alone when a source dimension
\* is below 1e-9 m; otherwise it scales by min(tw / srcW, th / srcH) * boost
\* where tw, th are the targets less twice the margin but at least 0.001 mm;
\* the factor is the same when the width and height roles are swapped.
C8_FitScaleIsFlooredFormula ==
    result.op = "fit" =>
        /\ result.swapped = result.fit
        /\ IF Degenerate(call.d_x) \/ Degenerate(call.d_y)
           THEN ~result.fit[1]
           ELSE result.fit[1] /\ result.fit[2] = FitFormulaFloored(call)

\* a fit limited by the height, with room left on both axes
C8_Witness ==
    /\ result.op = "fit"
    /\ result.fit[1]
    /\ call.target_w = 78 /\ call.target_h = 52 /\ call.margin = MARGIN_FIGURE
    /\ call.d_x = Frac(8, 100) /\ call.d_y = Frac(12, 100)
    /\ result.fit[2] = RMul(Frac(42, 120), call.size_boost)

Regions == {CellRect(layout, p) : p \in Pieces} \cup {TextBand}

RECURSIVE AreaSum(_)
AreaSum(S) ==
    IF S = {} THEN Q(0)
    ELSE LET r == CHOOSE x \in S : TRUE IN RAdd(RectArea(r), AreaSum(S \ {r}))

LayoutDone == layout.card_w # Q(0)

RegionsApart ==
    /\ Cardinality(Regions) = 5
    /\ \A r \in Regions : RectInside(r, CardRect)
    /\ \A r, o \in Regions : r # o => RectDisjoint(r, o)

\* C10 (as the spec states it): the cells and the text band do not overlap
\* and together cover the whole card.
C10_RegionsTileCard ==
    pc = "b_base" => RegionsApart /\ AreaSum(Regions) = RectArea(CardRect)

\* C10 (amended): the cells and the text band lie within the card and do not
\* overlap; together they cover the card except for two strips of the right
\* column, above and below the accessory stack, which is ACC_HEIGHT_RATIO
\* of the card's height while the lower band is 1 - UPPER_RATIO of it.  The
\* regions are examined when calculate_layout has returned; the layout is
\* the same from then on.
C10_RegionsApartWithGaps ==
    /\ LayoutDone => layout = calculate_layout
    /\ pc = "b_base" =>
        /\ LayoutDone
        /\ RegionsApart
        /\ AreaSum(Regions) =
             RSub(RectArea(CardRect),
                  RMul(RMul(Q(CARD_WIDTH), RSub(Q(1), FIGURE_WIDTH_RATIO)),
                       RMul(Q(CARD_HEIGHT), RSub(RSub(Q(1), UPPER_RATIO), ACC_HEIGHT_RATIO))))

\* the layout has been computed, and the strip above the first accessory cell is there
C10_Witness ==
    /\ LayoutDone
    /\ pc = "b_base"
    /\ RLt(CellRect(layout, 1).y1, TextBand.y0)


\* pixels back to mm: the rectangle that was pasted, in card coordinates
PasteRectMm(r) ==
    LET ppm == RDiv(Q(DPI), MM_PER_INCH)
    IN  [x0 |-> RSub(RDiv(Q(r.x), ppm), RHalf(Q(CARD_WIDTH))),
         x1 |-> RSub(RDiv(Q(r.x + r.w), ppm), RHalf(Q(CARD_WIDTH))),
         y0 |-> RSub(RHalf(Q(CARD_HEIGHT)), RDiv(Q(r.y + r.h), ppm)),
         y1 |-> RSub(RHalf(Q(CARD_HEIGHT)), RDiv(Q(r.y), ppm))]

TextBoxMm(t) ==
    [x0 |-> M2Mm(TextBox(t).x0), x1 |-> M2Mm(TextBox(t).x1),
     y0 |-> M2Mm(TextBox(t).y0), y1 |-> M2Mm(TextBox(t).y1)]

\* C11: every rectangle pasted into the texture lies inside the layout cell
\* of its piece, and the title and the subtitle lie inside the text band at
\* the top of the card.
C11_TextureInsideCellsAndBand ==
    /\ paste.has => RectInside(PasteRectMm(paste.rect), CellRect(layout, paste.piece))
    /\ \A t \in {text.title, text.sub} : t.has => RectInside(TextBoxMm(t), TextBand)

\* C12: when export_stl fails, the .blend file and the print texture are
\* written all the same.
C12_ExportFailureKeepsArtifacts ==
    (stl.failed /\ pc = "o_final") => blendSaved /\ tex.saved

\* the stages a failure is to be attributed to
StageNames == {"relief-build", "placement", "export", "texture"}

\* C14: when the card build fails, the error reported to the caller names
\* the stage that failed.
C14_FailureNamesStage ==
    (report.status = "failed" /\ LayoutDone) => report.message \in StageNames

\* C15: when placement is over, no two relief pieces overlap in X and Y, and
\* each piece reaches below the card's top face only by the sink depth.
C15_PiecesDoNotOverlap ==
    pc = "b_save" =>
        /\ \A p, q \in exists : p # q => RectDisjoint(obj[p].bb, obj[q].bb)
        /\ \A p \in exists : obj[p].bb.z0 = RNeg(Mm2M(Q(MESH_PLANE_SINK_DEPTH)))


\* C17: scale_text_to_fit never enlarges a text; a text already within the
\* maximum box of its role keeps its size; afterwards the text's width and
\* height do not exceed the maximum width and height of its role, and the
\* text keeps its proportions.
C17_TextScaledDownToFit ==
    result.op = "text" =>
        LET w == Q(call.w)
            h == Q(call.h)
            mw == IF call.role = "title" THEN Q(114) ELSE Frac(646, 10)
            mh == IF call.role = "title" THEN Frac(117, 10) ELSE Frac(743, 100)
        IN  /\ RLe(result.dims[1], w) /\ RLe(result.dims[2], h)
            /\ (RLe(w, mw) /\ RLe(h, mh)) => result.dims = <<w, h>>
            /\ RLe(result.dims[1], mw) /\ RLe(result.dims[2], mh)
            /\ RMul(result.dims[1], h) = RMul(result.dims[2], w)

\* a title of 150 x 8 mm comes out 114 mm wide, a small one as it was
C17_Witness ==
    /\ result.op = "text" /\ call.role = "title"
    /\ call.w = 150 /\ call.h = 8
    /\ result.dims = <<Q(114), Frac(608, 100)>>


(***************************************************************************)
(* The order queue of OrderProcessor.  The coroutines run on one event     *)
(* loop: each action is the code a coroutine runs between two awaits.      *)
(* asyncio.create_task only schedules the task; the task's code starts at  *)
(* a later turn of the loop, after the coroutines that were already ready. *)
(***************************************************************************)
ThreadOutcomes == {"returns", "raises"}

\* add_order, retry_order: start processing if not already running
StartIfIdle ==
    IF ~processing
    THEN LET w == CHOOSE t \in Tasks : workers[t].st = "none"
         IN  workers' = [workers EXCEPT ![w] = [st |-> "created", order |-> NoOrder]]
    ELSE UNCHANGED workers

Enqueue(o) ==
    /\ queue' = Append(queue, o)
    /\ enqueued' = Append(enqueued, o)
    /\ StartIfIdle
    /\ UNCHANGED <<processing, current_job, started, failed, pc, pipelineVars, unitVars, retryVars, apiVars>>

AddOrder ==
    /\ pc = "queue"
    /\ Len(enqueued) < MaxOrders
    /\ Enqueue([n |-> Len(enqueued) + 1, job |-> Len(enqueued) + 1, retry |-> FALSE])

\* retry_order(job_id, from_step, order_data) of an order that exists
RetryOrder ==
    /\ pc = "queue"
    /\ Len(enqueued) < MaxOrders
    /\ \E j \in {started[i].job : i \in 1..Len(started)} : Enqueue([n |-> Len(enqueued) + 1, job |-> j, retry |-> TRUE])

\* _process_queue from the test of the while loop to the next await
LoopTurn(w) ==
    IF queue # <<>>
    THEN /\ queue' = Tail(queue)
         /\ current_job' = Head(queue).job
         /\ started' = Append(started, Head(queue))
         /\ workers' = [workers EXCEPT ![w] = [st |-> "thread", order |-> Head(queue)]]
    ELSE /\ processing' = FALSE
         /\ current_job' = 0
         /\ workers' = [workers EXCEPT ![w] = [st |-> "done", order |-> NoOrder]]
         /\ UNCHANGED <<queue, started>>

\* the task starts: self.processing = True, then the loop
WorkerStarts ==
    /\ pc = "queue"
    /\ \E w \in Tasks :
        /\ workers[w].st = "created"
        /\ IF queue # <<>>
           THEN processing' = TRUE /\ LoopTurn(w)
           ELSE LoopTurn(w)
    /\ UNCHANGED <<enqueued, failed, pc, pipelineVars, unitVars, retryVars, apiVars>>

\* asyncio.to_thread(self._process_order_sync, order_data) is over
ThreadEnds ==
    /\ pc = "queue"
    /\ \E w \in Tasks, outcome \in ThreadOutcomes :
        /\ workers[w].st = "thread"
        /\ IF outcome = "raises"
           THEN /\ workers' = [workers EXCEPT ![w].st = "failing"]
                /\ failed' = failed \cup {workers[w].order.job}
                /\ UNCHANGED <<queue, processing, current_job, started>>
           ELSE /\ LoopTurn(w)
                /\ IF queue # <<>> THEN UNCHANGED processing ELSE TRUE
                /\ UNCHANGED failed
    /\ UNCHANGED <<enqueued, pc, pipelineVars, unitVars, retryVars, apiVars>>

WorkerDiesOnFailure ==
    /\ pc = "queue"
    /\ \E w \in Tasks :
        /\ workers[w].st = "failing"
        /\ workers' = [workers EXCEPT ![w] = [st |-> "done", order |-> NoOrder]]
    /\ UNCHANGED <<queue, processing, current_job, started, enqueued, failed, pc, pipelineVars, unitVars, retryVars, apiVars>>

\* the except branch: update_order_status(job_id, "failed", ...) is over
FailureStored ==
    /\ pc = "queue"
    /\ \E w \in Tasks :
        /\ workers[w].st = "failing"
        /\ LoopTurn(w)
        /\ IF queue # <<>> THEN UNCHANGED processing ELSE TRUE
    /\ UNCHANGED <<enqueued, failed, pc, pipelineVars, unitVars, retryVars, apiVars>>

InitQueueSpec ==
    /\ pc = "queue"
    /\ figIn = "ok" /\ accIn = [k \in AccIds |-> "ok"]
    /\ titleIn = <<>> /\ subIn = <<>>
    /\ InitScene
    /\ call = NoCall /\ result = NoCall
    /\ InitQueue
    /\ InitRetry
    /\ InitJob

NextQueue == AddOrder \/ RetryOrder \/ WorkerStarts \/ ThreadEnds \/ FailureStored

SpecQueue == InitQueueSpec /\ [][NextQueue]_vars

\* The event loop runs every task that is ready, the pipeline of an order
\* comes to an end, and so does the write of the failure to the database.
SpecQueueFair ==
    /\ SpecQueue
    /\ WF_vars(WorkerStarts) /\ WF_vars(ThreadEnds) /\ WF_vars(FailureStored)

IsPrefix(a, b) == Len(a) <= Len(b) /\ \A i \in 1..Len(a) : a[i] = b[i]

\* C16: at most one _process_queue task exists and at most one order is
\* being processed at any moment, and the orders start in the order in
\* which they were put in the queue.
C16_OneWorkerFifo ==
    /\ Cardinality({w \in Tasks : workers[w].st \in {"created", "thread", "failing"}}) <= 1
    /\ Cardinality({w \in Tasks : workers[w].st = "thread"}) <= 1
    /\ IsPrefix(started, enqueued)


CellCentreMm(p) ==
    IF p = 0
    THEN <<M2Mm(layout.fig_x), M2Mm(layout.fig_y)>>
    ELSE <<M2Mm(layout.acc_x), M2Mm(layout.acc_centers_y[p])>>

\* C18: the recorded centre (x, y) of every piece is the centre of the
\* layout cell the piece was fitted to (fig_x, fig_y for the figure;
\* acc_x, acc_centers_y[i] for accessory i), and so is the centre of the
\* piece's bounding box as it was before the trim.
C18_RecordCentreIsCellCentre ==
    /\ figure_rec.has =>
        /\ figure_rec.pos = CellCentreMm(0)
        /\ <<RectCx(preTrim[0]), RectCy(preTrim[0])>> = CellCentreMm(0)
    /\ \A i \in 1..Len(accessories) :
        acc_positions[i] = CellCentreMm(accessories[i])

\* C18: the figure was trimmed after its record was taken, and every
\* accessory has a record
C18_Witness ==
    /\ figure_rec.has
    /\ "trim" \in ran[0]
    /\ XYRectMm(obj[0]) # preTrim[0]
    /\ Len(accessories) = 3

PlacementOrder ==
    <<"center_xy", "rest_on_z0", "uniform_fit", "center_xy", "set_location",
      "snap", "sink", "trim", "cut", "smooth">>
IsPlacementStep(name) == name # "capture"
Before(t, a, b) ==
    \A j \in 1..Len(t) : t[j] = b => \E i \in 1..(j - 1) : t[i] = a

\* C20: for the figure and for each accessory the placement steps that have
\* run so far are the first steps of: center XY, rest on Z=0, uniform fit,
\* re-center XY, move to the cell, snap, sink, trim, cut, smooth shading;
\* the sink has run before the trim and before the cut.
C20_PlacementStepsInOrder ==
    \A p \in Pieces :
        /\ IsPrefix(SelectSeq(trace[p], IsPlacementStep), PlacementOrder)
        /\ Before(trace[p], "sink", "trim")
        /\ Before(trace[p], "sink", "cut")

\* C20: the placement of the figure and of an accessory has run to its end
C20_Witness ==
    /\ SelectSeq(trace[0], IsPlacementStep) = PlacementOrder
    /\ \E k \in AccIds : trace[k] = PlacementOrder


\* C21: after the sink and the cut the bottom of a piece is strictly below
\* the card's top surface (Z = 0) and not below the card's bottom plane
\* (Z = -thickness), whatever its bottom Z was before the sink.
C21_BottomInsideCard ==
    result.op = "sink" =>
        /\ RLt(result.after.bb.z0, Q(0))
        /\ RLe(RNeg(Mm2M(Q(CARD_THICKNESS))), result.after.bb.z0)

\* C21: a piece that was above the card's top by more than the sink depth
\* has gone through the sink and the cut
C21_Witness ==
    /\ result.op = "sink"
    /\ RLt(Mm2M(Q(MESH_PLANE_SINK_DEPTH)), result.before.bb.z0)
    /\ RLt(result.after.bb.z0, Q(0))


\* the bounding box b (in metres) crosses the card's footprint on some side
CrossesFootprint(b) ==
    \/ RLt(M2Mm(b.x0), RNeg(RHalf(Q(CARD_WIDTH))))
    \/ RLt(RHalf(Q(CARD_WIDTH)), M2Mm(b.x1))
    \/ RLt(M2Mm(b.y0), RNeg(RHalf(Q(CARD_HEIGHT))))
    \/ RLt(RHalf(Q(CARD_HEIGHT)), M2Mm(b.y1))

\* C22: trim_to_card_boundaries cuts the piece exactly when its bounding box
\* crosses the card's footprint on some side: then the box is the old one
\* clipped to the footprint, otherwise the piece is as it was; in both
\* cases the scene holds the same objects as before (no TrimBox is left).
C22_TrimsIffOutside ==
    result.op = "trim" =>
        LET b == result.before.bb
            a == result.after.bb
        IN  /\ CrossesFootprint(b) =>
                /\ result.after # result.before
                /\ InsideCardM(a)
                /\ a.z0 = b.z0 /\ a.z1 = b.z1
                /\ result.after.loc = result.before.loc
            /\ ~CrossesFootprint(b) => result.after = result.before
            /\ result.objects_after = result.objects_before

\* C22: a piece that crosses the card's top or bottom edge only was trimmed
C22_Witness ==
    /\ result.op = "trim"
    /\ call.cx = 0 /\ call.cy # 0
    /\ CrossesFootprint(result.before.bb)
    /\ result.after # result.before
    /\ DOMAIN result.objects_after = {"Card", "Figure"}


\* C26: in the exported mesh every duplicate with more polygons than the
\* threshold (1000) was reduced, the text duplicates included, and no
\* duplicate at or below the threshold was.
C26_LargeCopiesReduced ==
    stl.exported =>
        \A c \in DOMAIN stl.copies :
            stl.copies[c].decimated <=> stl.copies[c].polys > DECIMATE_MIN_POLYGONS

\* C27: once export_stl has returned, the scene is the one the project file
\* was saved from: the same objects with the same modifiers, geometry and
\* transforms, the originals all there, and no duplicate and no joined
\* export mesh left.
C27_ExportLeavesSceneAlone ==
    stl.exported =>
        /\ blendSaved
        /\ blendScene = [objects |-> scene, card |-> card, obj |-> obj, text |-> text]
        /\ MeshNames(0 \in exists, accessories) \cup TextNames(text) \subseteq DOMAIN scene
        /\ \A n \in DOMAIN scene : n \in {"Card", "Figure", "Accessory_1", "Accessory_2",
                                         "Accessory_3", "Title", "Subtitle"}
        /\ \A p \in exists : scene[PieceName(p)] = ReliefObject

\* C27: an export of the card, the figure, an accessory and a text has
\* returned
C27_Witness ==
    /\ stl.exported
    /\ {"Card_copy", "Figure_copy", "Title_copy"} \subseteq DOMAIN stl.copies
    /\ Len(accessories) > 0
    /\ {"Card", "Figure", "Title"} \subseteq DOMAIN scene


LiveWorkers == {w \in Tasks : workers[w].st \in {"created", "thread", "failing"}}
\* order number n has been taken from the queue and its pipeline is over
Processed(n) ==
    /\ Len(started) >= n
    /\ \A w \in Tasks : ~(workers[w].st \in {"thread", "failing"} /\ workers[w].order.n = n)

\* C23: while an order is queued some worker is there to take it, and every
\* order that was put in the queue, by add_order or by retry_order, is
\* eventually taken from it and processed, also when an order before it
\* raised.
C23_EveryOrderProcessed ==
    /\ [](queue # <<>> => LiveWorkers # {})
    /\ \A n \in 1..MaxOrders : (Len(enqueued) >= n) ~> Processed(n)

\* C23: the first order raised and a later order was taken and processed
C23_Witness ==
    /\ Len(started) >= 2
    /\ started[1].job \in failed
    /\ Processed(1) /\ Processed(2)


(***************************************************************************)
(* OrderProcessor._process_order, steps 1 to 5, run once by add_order and  *)
(* again by retry_order from a chosen step.  The job asks for three        *)
(* accessories.                                                            *)
(***************************************************************************)
\* step 1 fails for at most one accessory; steps 3 and 4 fail for none or
\* for the first entry of accessory_imgs
FailSets == {{}} \cup {{k} : k \in AccIds}
EntryFailSets == {{}, {1}}
StepOutcomes == {"ok", "raises"}
Steps == 1..5

RunsStepAlways(n, from) == TRUE

\* if from_step <= n
RunsStep(n, from) == from <= n

\* sorted(os.listdir(generated_dir)): accessory_<k>_<timestamp>.png
ImgBefore(a, b) == a.k < b.k \/ (a.k = b.k /\ a.run < b.run)
RECURSIVE SortImgs(_)
SortImgs(S) ==
    IF S = {} THEN <<>>
    ELSE LET m == CHOOSE a \in S : \A b \in S \ {a} : ImgBefore(a, b)
         IN  <<m>> \o SortImgs(S \ {m})

\* _find_generated_images: every accessory file in sorted order, the i-th
\* of them with accessory_<i>_nobg.png as its nobg_path if that file exists
find_generated_images(gen, nobg) ==
    LET files == SortImgs(gen)
    IN  [i \in 1..Len(files) |-> [img |-> files[i], nobg |-> nobg[i]]]

\* step 1: the images that generate_action_figures returns, in request order
RECURSIVE GeneratedList(_, _, _)
GeneratedList(k, fails, r) ==
    IF k > Cardinality(AccIds) THEN <<>>
    ELSE (IF k \in fails THEN <<>> ELSE <<[img |-> Img(k, r), nobg |-> NoImg]>>)
         \o GeneratedList(k + 1, fails, r)

\* _find_depth_maps: accessory_1..3_depth.png
find_depth_maps(files) == [i \in Slots |-> IF i <= Cardinality(AccIds) THEN files[i] ELSE NoImg]

\* step 5: the accessory arguments of the Blender command; Blender puts
\* --acc<n>_img / --acc<n>_depth in accessory cell n
blender_args(imgs, depths) ==
    [n \in AccIds |->
        IF n <= Len(imgs) /\ depths[n] # NoImg
        THEN [img |-> imgs[n].img, depth |-> depths[n]]
        ELSE [img |-> NoImg, depth |-> NoImg]]

BeginRun(k) ==
    /\ run' = run + 1
    /\ from_step' = k
    /\ spc' = "s1"
    /\ executed' = <<>>
    /\ accessory_imgs' = <<>>
    /\ depth_of' = [i \in Slots |-> NoImg]
    /\ blender_acc' = NoArgs
    /\ UNCHANGED <<figure_files, generated, nobg_files, depth_files, pc, pipelineVars, unitVars, queueVars, apiVars>>

\* add_order: the first run of the job
BeginOrder ==
    /\ pc = "retry" /\ spc = "idle"
    /\ BeginRun(1)

\* retry_order(job_id, from_step)
BeginRetry ==
    /\ pc = "retry" /\ spc \in {"done", "failed"} /\ run < MaxRuns
    /\ \E k \in Steps : BeginRun(k)

Raise == spc' = "failed"

\* STEP 1: generate the images, or load the existing ones
Step1 ==
    /\ pc = "retry" /\ spc = "s1"
    /\ IF RunsStep(1, from_step)
       THEN \E fails \in FailSets, outcome \in StepOutcomes :
            /\ executed' = Append(executed, 1)
            /\ generated' = generated \cup {Img(k, run) : k \in AccIds \ fails}
            /\ IF outcome = "raises"
               THEN Raise /\ UNCHANGED <<figure_files, accessory_imgs>>
               ELSE /\ figure_files' = [figure_files EXCEPT !.img = TRUE]
                    /\ accessory_imgs' = GeneratedList(1, fails, run)
                    /\ spc' = "s2"
       ELSE /\ IF ~figure_files.img
               THEN Raise /\ UNCHANGED accessory_imgs
               ELSE /\ accessory_imgs' = find_generated_images(generated, nobg_files)
                    /\ spc' = "s2"
            /\ UNCHANGED <<executed, generated, figure_files>>
    /\ UNCHANGED <<run, from_step, nobg_files, depth_files, depth_of, blender_acc,
                   pc, pipelineVars, unitVars, queueVars, apiVars>>

\* STEP 2: the background image
Step2 ==
    /\ pc = "retry" /\ spc = "s2"
    /\ executed' = IF RunsStep(2, from_step) THEN Append(executed, 2) ELSE executed
    /\ spc' = "s3"
    /\ UNCHANGED <<run, from_step, figure_files, generated, nobg_files, depth_files, accessory_imgs,
                   depth_of, blender_acc, pc, pipelineVars, unitVars, queueVars, apiVars>>

\* STEP 3: background removal; a failure for an accessory leaves the entry
\* of accessory_imgs as it is
Step3 ==
    /\ pc = "retry" /\ spc = "s3"
    /\ IF RunsStep(3, from_step)
       THEN \E fails \in EntryFailSets, outcome \in StepOutcomes :
            /\ executed' = Append(executed, 3)
            /\ IF outcome = "raises"
               THEN Raise /\ UNCHANGED <<accessory_imgs, nobg_files>>
               ELSE /\ accessory_imgs' =
                        [i \in 1..Len(accessory_imgs) |->
                            IF i \in fails THEN accessory_imgs[i]
                            ELSE [accessory_imgs[i] EXCEPT !.nobg = accessory_imgs[i].img]]
                    /\ nobg_files' =
                        [i \in Slots |->
                            IF i <= Len(accessory_imgs) /\ i \notin fails
                            THEN accessory_imgs[i].img ELSE nobg_files[i]]
                    /\ spc' = "s4"
       ELSE /\ IF ~figure_files.img
               THEN Raise /\ UNCHANGED accessory_imgs
               ELSE /\ accessory_imgs' = find_generated_images(generated, nobg_files)
                    /\ spc' = "s4"
            /\ UNCHANGED <<executed, nobg_files>>
    /\ UNCHANGED <<run, from_step, figure_files, generated, depth_files, depth_of, blender_acc,
                   pc, pipelineVars, unitVars, queueVars, apiVars>>

\* the image a depth map is made from: nobg_path or file_path
DepthSource(acc) == IF acc.nobg # NoImg THEN acc.nobg ELSE acc.img

\* STEP 4: depth maps; a failure for an accessory leaves the old file
Step4 ==
    /\ pc = "retry" /\ spc = "s4"
    /\ IF RunsStep(4, from_step)
       THEN \E fails \in EntryFailSets, outcome \in StepOutcomes :
            /\ executed' = Append(executed, 4)
            /\ IF outcome = "raises"
               THEN Raise /\ UNCHANGED <<figure_files, depth_of, depth_files>>
               ELSE /\ figure_files' = [figure_files EXCEPT !.depth = TRUE]
                    /\ depth_of' =
                        [i \in Slots |->
                            IF i <= Len(accessory_imgs) /\ i \notin fails
                            THEN DepthSource(accessory_imgs[i]) ELSE NoImg]
                    /\ depth_files' =
                        [i \in Slots |->
                            IF i <= Len(accessory_imgs) /\ i \notin fails
                            THEN DepthSource(accessory_imgs[i]) ELSE depth_files[i]]
                    /\ spc' = "s5"
       ELSE /\ IF ~figure_files.depth
               THEN Raise /\ UNCHANGED depth_of
               ELSE /\ depth_of' = find_depth_maps(depth_files)
                    /\ spc' = "s5"
            /\ UNCHANGED <<executed, figure_files, depth_files>>
    /\ UNCHANGED <<run, from_step, generated, nobg_files, accessory_imgs, blender_acc,
                   pc, pipelineVars, unitVars, queueVars, apiVars>>

\* STEP 5: the Blender command is built and run
Step5 ==
    /\ pc = "retry" /\ spc = "s5"
    /\ executed' = Append(executed, 5)
    /\ blender_acc' = blender_args(accessory_imgs, depth_of)
    /\ \E outcome \in StepOutcomes : spc' = IF outcome = "ok" THEN "done" ELSE "failed"
    /\ UNCHANGED <<run, from_step, figure_files, generated, nobg_files, depth_files, accessory_imgs,
                   depth_of, pc, pipelineVars, unitVars, queueVars, apiVars>>

InitRetrySpec ==
    /\ pc = "retry"
    /\ figIn = "ok" /\ accIn = [k \in AccIds |-> "ok"]
    /\ titleIn = <<>> /\ subIn = <<>>
    /\ InitScene
    /\ call = NoCall /\ result = NoCall
    /\ InitQueue
    /\ InitRetry
    /\ InitJob

NextRetry == BeginOrder \/ BeginRetry \/ Step1 \/ Step2 \/ Step3 \/ Step4 \/ Step5

SpecRetry == InitRetrySpec /\ [][NextRetry]_vars

\* C24: in the Blender command of a finished run, the image given for
\* accessory cell n is an image of the accessory requested as number n, and
\* the depth map given with it was made from an image of that accessory.
C24_AccessoryInOwnCell ==
    spc = "done" =>
        \A n \in AccIds :
            blender_acc[n].img # NoImg =>
                blender_acc[n].img.k = n /\ blender_acc[n].depth.k = n


StepsFrom(k) == [i \in 1..(6 - k) |-> k + i - 1]

\* C25: a run from step k executes no step below k, executes the steps
\* k, k + 1, ..., 5 in this order if it comes to its end (a run that fails
\* stops in the step that failed), and for k > 1 works on images that an
\* earlier run left on disk.
C25_RetryRunsStepsFromK ==
    /\ spc # "idle" => IsPrefix(executed, StepsFrom(from_step))
    /\ spc = "done" => executed = StepsFrom(from_step)
    /\ (spc = "done" /\ from_step > 1) =>
        \A i \in 1..Len(accessory_imgs) : accessory_imgs[i].img.run < run

\* C25: a retry from step 3 has come to its end
C25_Witness ==
    /\ spc = "done" /\ run > 1 /\ from_step = 3
    /\ executed = <<3, 4, 5>>
    /\ Len(accessory_imgs) > 0


(***************************************************************************)
(* process_job of api/main.py: the status and the progress map of a job.   *)
(* An action is the code between two awaits.                               *)
(***************************************************************************)
\* the base character and three accessories
MAX_IMAGES == 4
\* the order in which a dict's keys were inserted
KeyOrder ==
    <<"upload", "ai_generation", "background_removal", "3d_conversion", "blender_processing",
      "sticker_generation">>

\* job_storage[job_id]["progress"][key] = v
SetProgress(pr, key, v) == [k \in DOMAIN pr \cup {key} |-> IF k = key THEN v ELSE pr[k]]

\* the except branch: the first entry that is "processing" becomes "failed"
mark_failed(pr) ==
    LET at == {i \in 1..Len(KeyOrder) : KeyOrder[i] \in DOMAIN pr /\ pr[KeyOrder[i]] = "processing"}
    IN  IF at = {} THEN pr
        ELSE LET first == CHOOSE i \in at : \A j \in at : i <= j
             IN  [pr EXCEPT ![KeyOrder[first]] = "failed"]

JobFails ==
    /\ job_status' = "failed"
    /\ progress' = mark_failed(progress)
    /\ jpc' = "end"
    /\ UNCHANGED <<executing, n_images, n_nobg, n_models>>

\* from the entry of process_job to the await of generate_action_figures
StartJob ==
    /\ pc = "job" /\ jpc = "queued"
    /\ job_status' = "processing"
    /\ progress' = SetProgress(SetProgress(progress, "upload", "completed"), "ai_generation", "processing")
    /\ executing' = "ai_generation"
    /\ jpc' = "ai"
    /\ UNCHANGED <<n_images, n_nobg, n_models, pipelineVars, unitVars, queueVars, retryVars, pc>>

\* STEP 1 is over: n images were generated, or the call raised
AiGenerated ==
    /\ pc = "job" /\ jpc = "ai"
    /\ \E n \in 0..MAX_IMAGES, outcome \in StepOutcomes :
        IF outcome = "raises" \/ n = 0
        THEN JobFails
        ELSE /\ progress' = SetProgress(SetProgress(progress, "ai_generation", "completed"),
                                        "background_removal", "processing")
             /\ executing' = "background_removal"
             /\ n_images' = n
             /\ jpc' = "bg"
             /\ UNCHANGED <<job_status, n_nobg, n_models>>
    /\ UNCHANGED <<pipelineVars, unitVars, queueVars, retryVars, pc>>

\* STEP 2 is over (a failure for an image is caught and the original image
\* used), STEP 3 begins
BackgroundsRemoved ==
    /\ pc = "job" /\ jpc = "bg"
    /\ \E b \in 0..n_images, outcome \in StepOutcomes :
        IF outcome = "raises"
        THEN JobFails
        ELSE /\ progress' = SetProgress(progress, "3d_conversion", "processing")
             /\ executing' = "3d_conversion"
             /\ n_nobg' = b
             /\ jpc' = "3d"
             /\ UNCHANGED <<job_status, n_images, n_models>>
    /\ UNCHANGED <<pipelineVars, unitVars, queueVars, retryVars, pc>>

\* STEP 3 is over: m models were made, STEP 4 begins
ModelsGenerated ==
    /\ pc = "job" /\ jpc = "3d"
    /\ \E m \in 0..n_images :
        IF m = 0
        THEN JobFails
        ELSE /\ progress' = SetProgress(SetProgress(progress, "3d_conversion", "completed"),
                                        "sticker_generation", "processing")
             /\ executing' = "sticker_generation"
             /\ n_models' = m
             /\ jpc' = "sticker"
             /\ UNCHANGED <<job_status, n_images, n_nobg>>
    /\ UNCHANGED <<pipelineVars, unitVars, queueVars, retryVars, pc>>

\* STEP 4 is over: the job is completed, or process_3d_models failed
StickersGenerated ==
    /\ pc = "job" /\ jpc = "sticker"
    /\ \E outcome \in StepOutcomes :
        IF outcome = "raises"
        THEN JobFails
        ELSE /\ progress' = SetProgress(progress, "sticker_generation", "completed")
             /\ job_status' = "completed"
             /\ jpc' = "end"
             /\ UNCHANGED <<executing, n_images, n_nobg, n_models>>
    /\ UNCHANGED <<pipelineVars, unitVars, queueVars, retryVars, pc>>

InitJobSpec ==
    /\ pc = "job"
    /\ figIn = "ok" /\ accIn = [k \in AccIds |-> "ok"]
    /\ titleIn = <<>> /\ subIn = <<>>
    /\ InitScene
    /\ call = NoCall /\ result = NoCall
    /\ InitQueue
    /\ InitRetry
    /\ job_status = "queued"
    /\ progress \in {NewProgress(kind) : kind \in JobKinds}
    /\ jpc = "queued" /\ executing = "none"
    /\ n_images = 0 /\ n_nobg = 0 /\ n_models = 0

NextJob == StartJob \/ AiGenerated \/ BackgroundsRemoved \/ ModelsGenerated \/ StickersGenerated

SpecJob == InitJobSpec /\ [][NextJob]_vars

\* C29: in the step in which process_job fails, the progress entry of the
\* step that was executing becomes "failed" and no other entry changes.
C29_FailureMarksExecutingStep ==
    [][(job_status' = "failed" /\ job_status # "failed") =>
        /\ progress'[executing] = "failed"
        /\ \A k \in DOMAIN progress : k # executing => progress'[k] = progress[k]]_vars

\* C30: when the status of a job is "completed", every entry of its
\* progress map is "completed".
C30_CompletedMeansAllCompleted ==
    job_status = "completed" => \A k \in DOMAIN progress : progress[k] = "completed"


\* C28: the title's top edge is TEXT_TOP_MARGIN below the card's top edge;
\* the subtitle's top edge is 2 mm below the title's bottom edge, and with
\* no title it is TEXT_TOP_MARGIN below the card's top edge.
C28_TextStackedFromTopMargin ==
    LET top == RSub(Mm2M(RHalf(Q(CARD_HEIGHT))), Mm2M(Q(TEXT_TOP_MARGIN)))
        TopEdge(t) == RAdd(t.y, RHalf(t.h))
        BottomEdge(t) == RSub(t.y, RHalf(t.h))
    IN  /\ text.title.has => TopEdge(text.title) = top
        /\ (text.title.has /\ text.sub.has) =>
               TopEdge(text.sub) = RSub(BottomEdge(text.title), Mm2M(Q(2)))
        /\ (~text.title.has /\ text.sub.has) => TopEdge(text.sub) = top

\* a scaled-down title with a subtitle under it
C28_Witness ==
    /\ text.title.has /\ text.sub.has
    /\ titleIn = <<300, 18>>
    /\ RLt(text.sub.y, text.title.y)


====
